---- MODULE Spec2Model ----
(***************************************************************************)
(* signmeup-studio: the recognition pipeline between a keypoint detector   *)
(* and the user interface.  The repository holds several revisions of the  *)
(* same classes; each revision that a property is about is modelled under  *)
(* its own specification:                                                  *)
(*                                                                         *)
(*   Spec          ActionLstmPipeline of src/src/lib/actionLstmPipeline.ts *)
(*                 (window, classifier adapter, model loading)             *)
(*   SpecCooldown  ActionLstmPipeline of src/unnamed/part_004              *)
(*                 (anti-repeat cooldown of 2000 ms)                       *)
(*   SpecStability ActionLstmPipeline of src/unnamed/part_005, lines       *)
(*                 90-206 (stability buffer, 1500 ms lock-out, 3000 ms     *)
(*                 re-trigger time)                                        *)
(*   SpecApp       Index.tsx with CameraFeed.tsx (lines 1-224) and the     *)
(*                 LandmarkSmoother of src/unnamed/part_003                *)
(*                                                                         *)
(* Probabilities and confidences are integers in percent (0.85 is 85),     *)
(* times are integers in milliseconds.                                     *)
(***************************************************************************)
EXTENDS Integers, Sequences, FiniteSets, TLC

VARIABLES
    model,               \* ActionLstmPipeline.model: Null or "loaded"
    ready,               \* ActionLstmPipeline._ready
    isLoading,           \* ActionLstmPipeline.isLoading
    frameBuffer,         \* ActionLstmPipeline.frameBuffer: the window
    stabilityBuffer,     \* part_005: ActionLstmPipeline.stabilityBuffer
    lastTriggeredAction, \* part_005: ActionLstmPipeline.lastTriggeredAction
    lastTriggerTime,     \* part_005: ActionLstmPipeline.lastTriggerTime
    lastDetectedAction,  \* part_004: ActionLstmPipeline.lastDetectedAction
    lastDetectionTime,   \* part_004: ActionLstmPipeline.lastDetectionTime
    now,                 \* the clock read by Date.now()
    frameNo,             \* number of the video frame the camera delivers next
    obs,                 \* what the last frame tick saw (see the actions)
    tensor,              \* input handed to model.predict by the last predict(), or Null
    event,               \* value the last predict() resolved to, or Null
    emitLog,             \* history: the events delivered since the last reset,
                         \* each with the clock at its delivery (the last LogCap)
    filters,             \* LandmarkSmoother.filters of CameraFeed's smootherRef
    status,              \* CameraFeed: status
    facingMode,          \* CameraFeed: facingMode
    isSwitching,         \* CameraFeed: isSwitching
    processingLocked,    \* CameraFeed: processingLocked.current
    renderFrameRef,      \* CameraFeed: Null, "scheduled" while a loop tick is
                         \* requested, "fired" for a tick that ran last
    isPaused,            \* Index: isPaused
    pauseTimeoutRef,     \* Index: Null, or "timer" while the 400 ms timer is pending
    currentWord,         \* Index: currentWord, as the sequence of its labels
    currentSign,         \* Index: currentSign
    signHistory,         \* Index: the texts of signHistory
    results,             \* the detection result handed to resultsToFeatures
    featureVector,       \* the vector built last, input of smooth()
    smoothed,            \* the vector smooth() returned last
    isProcessing,        \* HolisticDetector.isProcessing
    resolveDetection,    \* HolisticDetector.resolveDetection: 0 for null, or
                         \* the number of the call whose resolver it holds
    lastResults,         \* HolisticDetector.lastResults: 0 for null, or the
                         \* number of the send whose results arrived last
    sends,               \* the sends the detector has not answered yet,
                         \* oldest first
    timers,              \* the calls whose timeout timer is pending
    awaiting,            \* the extractFeatures calls that have not settled
    settled,             \* the extractFeatures call that settled last
    detectorReady,       \* HolisticDetector._ready
    detectorLoading,     \* HolisticDetector.isLoading
    detectorLoads,       \* the loads of the detector that are running
    loads,               \* the loads of the classifier model that are running
    pendingPredict,      \* a predict() call awaits the classifier's answer
    tfMemory,            \* the tensors tf has created, and those of them not
                         \* disposed yet
    chains               \* CameraFeed: the frame loops that have not ended

pipelineVars == <<model, ready, isLoading, frameBuffer>>
stabilityVars == <<stabilityBuffer, lastTriggeredAction, lastTriggerTime>>
cooldownVars == <<lastDetectedAction, lastDetectionTime>>
cameraVars == <<filters, status, facingMode, isSwitching, processingLocked,
                renderFrameRef>>
indexVars == <<isPaused, pauseTimeoutRef, currentWord, currentSign, signHistory>>
appVars == <<cameraVars, indexVars>>
featureVars == <<results, featureVector, smoothed>>
detectorVars == <<isProcessing, resolveDetection, lastResults, sends, timers,
                  awaiting, settled, detectorReady>>
asyncVars == <<detectorLoading, detectorLoads, loads, pendingPredict,
               tfMemory, chains>>
extraVars == <<featureVars, detectorVars, asyncVars>>

vars == <<model, ready, isLoading, frameBuffer, stabilityBuffer,
          lastTriggeredAction, lastTriggerTime, lastDetectedAction,
          lastDetectionTime, now, frameNo, obs, tensor, event, emitLog,
          filters, status, facingMode, isSwitching, processingLocked,
          renderFrameRef, isPaused, pauseTimeoutRef, currentWord, currentSign,
          signHistory, results, featureVector, smoothed, isProcessing,
          resolveDetection, lastResults, sends, timers, awaiting, settled,
          detectorReady, detectorLoading, detectorLoads, loads,
          pendingPredict, tfMemory, chains>>

Null == "null"

\* predict() resolved to null
NoEvent == [action |-> Null, confidence |-> 0]

\* tf holds no tensor and numbers the next one it creates 1
NoTensors == [nextId |-> 1, live |-> {}]

\* model.predict was not called
NoTensor == <<>>

\* obs: the operation that ran last, with the classifier's answer when the
\* operation was a frame that has one
Op(name) == [op |-> name, probs |-> <<>>]

(***************************************************************************)
(* Program constants.                                                      *)
(***************************************************************************)
SEQUENCE_LENGTH == 30
CONFIDENCE_THRESHOLD == 85
ACTION_CLASSES == <<"hello", "thanks", "iloveyou">>

(***************************************************************************)
(* Bounds of the model.                                                    *)
(***************************************************************************)
MaxFrames == 33
MaxTicks == 2
LogCap == 3
CooldownTickMs == 1000
StabilityTickMs == 1600

(***************************************************************************)
(* What the external classifier may return: a distribution over the three  *)
(* classes, in percent.  The set holds a confident answer for every class, *)
(* the two values next to the threshold, a tie, and a tie above the        *)
(* threshold as an output layer that is not normalised can give it.        *)
(***************************************************************************)
Distributions ==
    { <<90, 5, 5>>, <<5, 90, 5>>, <<5, 5, 90>>,
      <<85, 10, 5>>, <<84, 10, 6>>, <<40, 40, 20>>, <<5, 90, 90>> }

(***************************************************************************)
(* The argmax loop of predict(): position i is examined with the best      *)
(* index and value found so far.                                           *)
(***************************************************************************)
RECURSIVE ArgMaxLoop(_, _, _, _)
ArgMaxLoop(probs, i, maxIdx, maxProb) ==
    IF i > Len(probs) THEN <<maxIdx, maxProb>>
    ELSE IF probs[i] > maxProb
         THEN ArgMaxLoop(probs, i + 1, i, probs[i])
         ELSE ArgMaxLoop(probs, i + 1, maxIdx, maxProb)

\* an argmax that takes the last of equal maxima
ArgMaxLast(probs) ==
    LET i == CHOOSE k \in 1..Len(probs) :
                 /\ \A j \in 1..Len(probs) : probs[j] <= probs[k]
                 /\ \A j \in (k + 1)..Len(probs) : probs[j] < probs[k]
    IN  <<i, probs[i]>>

\* let maxIdx = 0; let maxProb = probs[0]; for (let i = 1; ...)
ArgMax(probs) == ArgMaxLoop(probs, 2, 1, probs[1])

(***************************************************************************)
(* pushFrame: append, and drop the oldest vector once the window is longer *)
(* than SEQUENCE_LENGTH.                                                   *)
(***************************************************************************)
\* a full window that turns the new vector away
pushFrameDropNewest(buf, features) ==
    IF Len(buf) >= SEQUENCE_LENGTH THEN buf ELSE Append(buf, features)

\* a window that is never cut back
pushFrameNoShift(buf, features) == Append(buf, features)

pushFrame(buf, features) ==
    LET pushed == Append(buf, features)
    IN  IF Len(pushed) > SEQUENCE_LENGTH THEN Tail(pushed) ELSE pushed

(***************************************************************************)
(* predict() of src/src/lib/actionLstmPipeline.ts, as a record of what it  *)
(* does for a given classifier answer: whether the classifier is invoked,  *)
(* on what input, and the value it resolves to.                            *)
(***************************************************************************)
\* a guard that looks at the window only
predictGuardNoModel(m, buf) == Len(buf) < SEQUENCE_LENGTH

predictGuard(m, buf) == m = Null \/ Len(buf) < SEQUENCE_LENGTH

predict(m, buf, probs) ==
    IF predictGuard(m, buf)
    THEN [tensor |-> NoTensor, result |-> NoEvent]
    ELSE LET inputData == [i \in 1..SEQUENCE_LENGTH |-> buf[i]]
             best == ArgMax(probs)
         IN  [tensor |-> inputData,
              result |-> IF best[2] >= CONFIDENCE_THRESHOLD
                         THEN [action |-> ACTION_CLASSES[best[1]],
                               confidence |-> best[2]]
                         ELSE NoEvent]

\* the answer of a classifier call that threw, and what predict() gives its
\* caller when it rejects
Thrown == <<>>
Rejected == [action |-> "rejected", confidence |-> 0]

\* a predict() that catches what the classifier throws and resolves to null
predictCatchesAll(m, buf, answer) ==
    IF answer = Thrown /\ ~predictGuard(m, buf)
    THEN [tensor |-> [i \in 1..SEQUENCE_LENGTH |-> buf[i]], result |-> NoEvent]
    ELSE predict(m, buf, answer)

\* predict() with a classifier that answers with a distribution or throws:
\* try { ... } finally { tensor.dispose(); } has no catch clause
predictOrThrow(m, buf, answer) ==
    IF answer = Thrown /\ ~predictGuard(m, buf)
    THEN [tensor |-> [i \in 1..SEQUENCE_LENGTH |-> buf[i]], result |-> Rejected]
    ELSE predict(m, buf, answer)

clearBuffer(buf) == <<>>

(***************************************************************************)
(* The filter bank: LowPassFilter, OneEuroFilter and LandmarkSmoother of   *)
(* src/unnamed/part_003, lines 86-193.  Coordinates, cutoffs and smoothing *)
(* factors are fixed-point numbers in thousandths (0.5 is 500); products   *)
(* are cut back to thousandths by integer division.  A null field is a     *)
(* flag with the value held at 0.                                          *)
(***************************************************************************)
FILTER_FREQ == 30
MIN_CUTOFF == 1000
BETA == 50
D_CUTOFF == 1000
TWO_PI == 6283

Abs(x) == IF x < 0 THEN 0 - x ELSE x

\* a LowPassFilter after construction and after reset(): y = s = null
NewLowPass == [set |-> FALSE, y |-> 0, s |-> 0]

\* a low-pass step that does not weigh the new value
lowPassFilterNoGain(f, value, alpha) ==
    IF ~f.set
    THEN [set |-> TRUE, y |-> value, s |-> value]
    ELSE LET s1 == value + ((1000 - alpha) * f.s) \div 1000
         IN  [set |-> TRUE, y |-> s1, s |-> s1]

\* LowPassFilter.filter(value, alpha); lastValue is the field y
lowPassFilter(f, value, alpha) ==
    IF ~f.set
    THEN [set |-> TRUE, y |-> value, s |-> value]
    ELSE LET s1 == (alpha * value + (1000 - alpha) * f.s) \div 1000
         IN  [set |-> TRUE, y |-> s1, s |-> s1]

\* OneEuroFilter.alpha(cutoff): 1 / (1 + tau / te) with te = 1 / freq and
\* tau = 1 / (2 pi cutoff), which is 2 pi cutoff / (2 pi cutoff + freq)
alpha(cutoff, freq) ==
    LET w == (TWO_PI * cutoff) \div 1000
    IN  (1000 * w) \div (w + freq * 1000)

\* a OneEuroFilter of the bank after construction: lastTime = null
NewFilter ==
    [freq |-> FILTER_FREQ, xFilter |-> NewLowPass, dxFilter |-> NewLowPass,
     hasTime |-> FALSE, lastTime |-> 0]

\* a reset that leaves the value filter as it is
resetFilterKeepValue(f) ==
    [freq |-> f.freq, xFilter |-> f.xFilter, dxFilter |-> NewLowPass,
     hasTime |-> FALSE, lastTime |-> 0]

\* OneEuroFilter.reset(): the frequency estimate is not assigned
resetFilter(f) ==
    [freq |-> f.freq, xFilter |-> NewLowPass, dxFilter |-> NewLowPass,
     hasTime |-> FALSE, lastTime |-> 0]

\* a frequency estimate taken from the distance of two timestamps in either
\* order
nextFreqEitherOrder(f, hasTs, ts) ==
    IF hasTs /\ f.hasTime /\ ts # f.lastTime
    THEN 1000 \div Abs(ts - f.lastTime)
    ELSE f.freq

\* if (timestamp !== undefined && this.lastTime !== null) {
\*   const dt = (timestamp - this.lastTime) / 1000;
\*   if (dt > 0) this.freq = 1.0 / dt; }
nextFreq(f, hasTs, ts) ==
    IF hasTs /\ f.hasTime /\ ts - f.lastTime > 0
    THEN 1000 \div (ts - f.lastTime)
    ELSE f.freq

\* OneEuroFilter.filter(value, timestamp) of a filter constructed with
\* minCutoff and beta; hasTs is "timestamp !== undefined", perfNow the value
\* of performance.now()
oneEuroFilterWith(f, value, hasTs, ts, perfNow, minCutoff, beta) ==
    LET freq1 == nextFreq(f, hasTs, ts)
        lastTime1 == IF hasTs THEN ts
                     ELSE IF f.hasTime THEN f.lastTime + 1000 \div freq1
                     ELSE perfNow
        dValue == IF f.xFilter.set THEN (value - f.xFilter.y) * freq1 ELSE 0
        dx1 == lowPassFilter(f.dxFilter, dValue, alpha(D_CUTOFF, freq1))
        cutoff == minCutoff + (beta * Abs(dx1.y)) \div 1000
        x1 == lowPassFilter(f.xFilter, value, alpha(cutoff, freq1))
    IN  [state |-> [freq |-> freq1, xFilter |-> x1, dxFilter |-> dx1,
                    hasTime |-> TRUE, lastTime |-> lastTime1],
         out |-> x1.y]

\* filter(value, timestamp) of a filter of the bank of lines 163-193
oneEuroFilter(f, value, hasTs, ts, perfNow) ==
    oneEuroFilterWith(f, value, hasTs, ts, perfNow, MIN_CUTOFF, BETA)

\* the channels of the bank that the model follows: one coordinate of the
\* pose, present in every frame, and one of the left hand, written as 0 in a
\* frame that shows the right hand only
Channels == {"pose", "leftHand"}

\* LandmarkSmoother.smooth(features, ts) of lines 176-188
smoothAt(bank, features, hasTs, ts, perfNow) ==
    LET one(c) == oneEuroFilter(bank[c], features[c], hasTs, ts, perfNow)
    IN  [filters |-> [c \in Channels |->
                         IF features[c] # 0 THEN one(c).state
                         ELSE resetFilter(bank[c])],
         smoothed |-> [c \in Channels |->
                         IF features[c] # 0 THEN one(c).out ELSE 0]]

\* a loop that hands performance.now() to smooth
smoothStamped(bank, features, perfNow) ==
    smoothAt(bank, features, TRUE, perfNow, perfNow)

\* LandmarkSmoother.smooth(features), called without a timestamp
smooth(bank, features, perfNow) == smoothAt(bank, features, FALSE, 0, perfNow)

\* the bank of lines 63-85 is built with minCutoff = 0.5 and beta = 0.01
MIN_CUTOFF_FIRST == 500
BETA_FIRST == 10

\* LandmarkSmoother.smooth(features, ts) of lines 72-82: a channel whose
\* input is 0 is left as it is
smoothFirst(bank, features, hasTs, ts, perfNow) ==
    LET one(c) == oneEuroFilterWith(bank[c], features[c], hasTs, ts, perfNow,
                                    MIN_CUTOFF_FIRST, BETA_FIRST)
    IN  [filters |-> [c \in Channels |->
                         IF features[c] # 0 THEN one(c).state ELSE bank[c]],
         smoothed |-> [c \in Channels |->
                         IF features[c] # 0 THEN one(c).out ELSE 0]]

\* LandmarkSmoother.reset()
resetBank(bank) == [c \in Channels |-> resetFilter(bank[c])]

\* the component state of CameraFeed and Index after the first render
AppInitial ==
    /\ filters = [c \in Channels |-> NewFilter]
    /\ status = "loading"
    /\ facingMode = "user"
    /\ isSwitching = FALSE
    /\ processingLocked = FALSE
    /\ renderFrameRef = Null
    /\ isPaused = FALSE
    /\ pauseTimeoutRef = Null
    /\ currentWord = <<>>
    /\ currentSign = Null
    /\ signHistory = <<>>

(***************************************************************************)
(* The feature builder: HolisticDetector.resultsToFeatures of              *)
(* src/src/lib/mediapipeDetector.ts, lines 92-113.  A coordinate is an     *)
(* integer, NaN, or Undefined for a property the point does not have; a    *)
(* landmark array holds a point or NoPoint at each index, and reads as     *)
(* NoPoint past its end.                                                   *)
(***************************************************************************)
FEATURE_LENGTH == 1662
POSE_COUNT == 33
FACE_COUNT == 468
HAND_COUNT == 21
DIMS == 3

NaN == 0 - 999999
Undefined == 0 - 888888

NoPoint == [present |-> FALSE, x |-> 0, y |-> 0, z |-> 0, visibility |-> 0]
NoLandmarks == [defined |-> FALSE, points |-> <<>>]

\* what a Float32Array holds after the value is stored in it
toFloat32(v) == IF v = Undefined THEN NaN ELSE v

\* lm.visibility ?? 0
orZero(v) == IF v = Undefined THEN 0 ELSE v

\* landmarks[i], i counted from 0
landmarkAt(landmarks, i) ==
    IF i + 1 <= Len(landmarks.points) THEN landmarks.points[i + 1] ELSE NoPoint

\* the slots a skipped point leaves untouched
skipNothing(dims, hasVis) == 0

\* dims + (hasVis ? 1 : 0)
skipWidth(dims, hasVis) == dims + (IF hasVis THEN 1 ELSE 0)

\* features[offset++] = v
store(f, offset, v) == [f EXCEPT ![offset + 1] = toFloat32(v)]

\* one turn of the loop of fill, for point i, on the vector and the cursor
fillPoint(acc, landmarks, dims, hasVis, i) ==
    LET lm == landmarkAt(landmarks, i)
        f == acc.features
        offset == acc.offset
    IN  IF lm.present
        THEN LET f3 == store(store(store(f, offset, lm.x), offset + 1, lm.y),
                             offset + 2, lm.z)
             IN  IF hasVis
                 THEN [features |-> store(f3, offset + 3, orZero(lm.visibility)),
                       offset |-> offset + 4]
                 ELSE [features |-> f3, offset |-> offset + 3]
        ELSE [features |-> f, offset |-> offset + skipWidth(dims, hasVis)]

\* the turns lo, lo + 1, ..., hi - 1 of the loop, in this order; the range
\* is halved so that the evaluation nests to the depth of its logarithm, and
\* the test of the cursor has acc computed before the turns that follow it
RECURSIVE fillLoop(_, _, _, _, _, _)
fillLoop(acc, landmarks, dims, hasVis, lo, hi) ==
    IF hi <= lo \/ acc.offset < 0 THEN acc
    ELSE IF hi = lo + 1 THEN fillPoint(acc, landmarks, dims, hasVis, lo)
    ELSE LET mid == (lo + hi) \div 2
         IN  fillLoop(fillLoop(acc, landmarks, dims, hasVis, lo, mid),
                      landmarks, dims, hasVis, mid, hi)

\* fill(landmarks, count, dims, hasVis) on the vector f and cursor offset
fill(f, offset, landmarks, count, dims, hasVis) ==
    IF landmarks.defined /\ Len(landmarks.points) > 0
    THEN fillLoop([features |-> f, offset |-> offset], landmarks, dims, hasVis,
                  0, count)
    ELSE [features |-> f, offset |-> offset + count * skipWidth(dims, hasVis)]

resultsToFeatures(res) ==
    LET f0 == [k \in 1..FEATURE_LENGTH |-> 0]
        a == fill(f0, 0, res.poseLandmarks, POSE_COUNT, DIMS, TRUE)
        b == fill(a.features, a.offset, res.faceLandmarks, FACE_COUNT, DIMS, FALSE)
        c == fill(b.features, b.offset, res.leftHandLandmarks, HAND_COUNT, DIMS, FALSE)
        d == fill(c.features, c.offset, res.rightHandLandmarks, HAND_COUNT, DIMS, FALSE)
    IN  d.features

\* holisticDetector.extractFeatures(video, isEnv) as the loop calls it, once
\* the detector has answered: extractFeatures(video) has one parameter, and
\* what is passed for the capture orientation is dropped
extractFeaturesFor(res, isEnv) == resultsToFeatures(res)

NoResults ==
    [poseLandmarks |-> NoLandmarks, faceLandmarks |-> NoLandmarks,
     leftHandLandmarks |-> NoLandmarks, rightHandLandmarks |-> NoLandmarks]

\* settled when no call of extractFeatures has settled yet; otherwise the
\* call, what it resolved to, why, and the send whose results it was given
NoCall == [call |-> 0, outcome |-> "none", cause |-> "none", from |-> 0]

\* the detector after construction, with no call made and no vector built,
\* no load and no predict() running and no frame loop started
DetectorInitial ==
    /\ results = NoResults
    /\ featureVector = <<>>
    /\ smoothed = <<>>
    /\ isProcessing = FALSE
    /\ resolveDetection = 0
    /\ lastResults = 0
    /\ sends = <<>>
    /\ timers = {}
    /\ awaiting = {}
    /\ settled = NoCall
    /\ detectorReady = FALSE
    /\ detectorLoading = FALSE
    /\ detectorLoads = 0
    /\ loads = 0
    /\ pendingPredict = FALSE
    /\ tfMemory = NoTensors
    /\ chains = {}

(***************************************************************************)
(* Spec: the pipeline of src/src/lib/actionLstmPipeline.ts driven by its   *)
(* callers.  A pushed vector is identified by the number of the video      *)
(* frame it was built from.                                                *)
(***************************************************************************)
Init ==
    /\ model = Null
    /\ ready = FALSE
    /\ isLoading = FALSE
    /\ frameBuffer = <<>>
    /\ stabilityBuffer = <<>>
    /\ lastTriggeredAction = Null
    /\ lastTriggerTime = 0
    /\ lastDetectedAction = ""
    /\ lastDetectionTime = 0
    /\ now = 0
    /\ frameNo = 1
    /\ obs = Op("new")
    /\ tensor = NoTensor
    /\ event = NoEvent
    /\ emitLog = <<>>
    /\ AppInitial
    /\ DetectorInitial

\* initialize(): up to the first await
InitializeCall ==
    /\ ~(ready \/ isLoading)
    /\ isLoading' = TRUE
    /\ obs' = Op("initialize")
    /\ UNCHANGED <<model, ready, frameBuffer, stabilityVars, cooldownVars,
                   now, frameNo, tensor, event, emitLog,
                   appVars, extraVars>>

\* initialize(): tf.loadLayersModel resolved
LoadSucceeds ==
    /\ isLoading
    /\ model' = "loaded"
    /\ ready' = TRUE
    /\ isLoading' = FALSE
    /\ obs' = Op("loaded")
    /\ UNCHANGED <<frameBuffer, stabilityVars, cooldownVars, now, frameNo,
                   tensor, event, emitLog,
                   appVars, extraVars>>

\* initialize(): tf.ready or tf.loadLayersModel rejected
LoadFails ==
    /\ isLoading
    /\ isLoading' = FALSE
    /\ obs' = Op("loadFailed")
    /\ UNCHANGED <<model, ready, frameBuffer, stabilityVars, cooldownVars,
                   now, frameNo, tensor, event, emitLog,
                   appVars, extraVars>>

PushFrame ==
    /\ frameNo <= MaxFrames
    /\ frameBuffer' = pushFrame(frameBuffer, frameNo)
    /\ frameNo' = frameNo + 1
    /\ obs' = Op("pushFrame")
    /\ tensor' = NoTensor
    /\ event' = NoEvent
    /\ UNCHANGED <<model, ready, isLoading, stabilityVars, cooldownVars, now,
                   emitLog,
                   appVars, extraVars>>

Predict ==
    \E probs \in Distributions \cup {Thrown} :
        LET r == predictOrThrow(model, frameBuffer, probs)
        IN  /\ obs' = [op |-> "predict", probs |-> probs]
            /\ tensor' = r.tensor
            /\ event' = r.result
            /\ UNCHANGED <<pipelineVars, stabilityVars, cooldownVars, now,
                           frameNo, emitLog,
                   appVars, extraVars>>

ClearBuffer ==
    /\ frameBuffer' = clearBuffer(frameBuffer)
    /\ obs' = Op("clearBuffer")
    /\ tensor' = NoTensor
    /\ event' = NoEvent
    /\ UNCHANGED <<model, ready, isLoading, stabilityVars, cooldownVars, now,
                   frameNo, emitLog,
                   appVars, extraVars>>

Next ==
    \/ InitializeCall
    \/ LoadSucceeds
    \/ LoadFails
    \/ PushFrame
    \/ Predict
    \/ ClearBuffer

Spec == Init /\ [][Next]_vars

(***************************************************************************)
(* The clock.  Date.now() is far larger than every interval of the code;   *)
(* a specification with a clock starts it at StartTime and moves it in     *)
(* steps of its own size, at most MaxTicks times.                          *)
(***************************************************************************)
StartTime == 1000 * 1000

Tick(stepMs) ==
    /\ now + stepMs <= StartTime + MaxTicks * stepMs
    /\ now' = now + stepMs
    /\ UNCHANGED <<pipelineVars, stabilityVars, cooldownVars, frameNo, obs,
                   tensor, event, emitLog,
                   appVars, extraVars>>

\* history: the log with one more delivered event
Logged(log, result, t) ==
    IF result = NoEvent THEN log
    ELSE LET l == Append(log, [action |-> result.action, time |-> t])
         IN  IF Len(l) > LogCap THEN Tail(l) ELSE l

\* a frame tick of the render loop that reaches neither pushFrame nor
\* predict: extractFeatures gave null or the results hold no hand
IdleFrame ==
    /\ obs' = Op("idleFrame")
    /\ tensor' = NoTensor
    /\ event' = NoEvent
    /\ UNCHANGED <<pipelineVars, stabilityVars, cooldownVars, now, frameNo,
                   emitLog,
                   appVars, extraVars>>

\* the vector pushed by a frame tick where the classifier's answer is an
\* input of the model: its content decides nothing
Features == "features"

(***************************************************************************)
(* SpecCooldown: ActionLstmPipeline of src/unnamed/part_004.               *)
(***************************************************************************)
COOLDOWN_MS == 2000
CONFIDENCE_THRESHOLD_COOLDOWN == 70

CooldownDistributions ==
    { <<90, 5, 5>>, <<5, 90, 5>>, <<70, 20, 10>>, <<69, 21, 10>> }

\* a pipeline without cooldown
inCooldownNever(action, lastAction, t, lastTime) == FALSE

\* action === this.lastDetectedAction && (now - this.lastDetectionTime) < this.COOLDOWN_MS
inCooldown(action, lastAction, t, lastTime) ==
    action = lastAction /\ t - lastTime < COOLDOWN_MS

predictCooldown(m, buf, lastAction, lastTime, t, probs) ==
    LET nothing(tens) == [tensor |-> tens, result |-> NoEvent,
                          lastDetectedAction |-> lastAction,
                          lastDetectionTime |-> lastTime]
    IN  IF predictGuard(m, buf) THEN nothing(NoTensor)
        ELSE LET inputData == [i \in 1..SEQUENCE_LENGTH |-> buf[i]]
                 best == ArgMax(probs)
                 action == ACTION_CLASSES[best[1]]
             IN  IF best[2] >= CONFIDENCE_THRESHOLD_COOLDOWN
                 THEN IF inCooldown(action, lastAction, t, lastTime)
                      THEN nothing(inputData)
                      ELSE [tensor |-> inputData,
                            result |-> [action |-> action, confidence |-> best[2]],
                            lastDetectedAction |-> action,
                            lastDetectionTime |-> t]
                 ELSE nothing(inputData)

InitCooldown ==
    /\ model = Null
    /\ ready = FALSE
    /\ isLoading = FALSE
    /\ frameBuffer = <<>>
    /\ stabilityBuffer = <<>>
    /\ lastTriggeredAction = Null
    /\ lastTriggerTime = 0
    /\ lastDetectedAction = ""
    /\ lastDetectionTime = 0
    /\ now = StartTime
    /\ frameNo = 1
    /\ obs = Op("new")
    /\ tensor = NoTensor
    /\ event = NoEvent
    /\ emitLog = <<>>
    /\ AppInitial
    /\ DetectorInitial

\* a frame tick with features and a hand: pushFrame, then predict
CooldownFrame ==
    \E probs \in CooldownDistributions :
        LET pushed == pushFrame(frameBuffer, Features)
            r == predictCooldown(model, pushed, lastDetectedAction,
                                 lastDetectionTime, now, probs)
        IN  /\ frameBuffer' = pushed
            /\ lastDetectedAction' = r.lastDetectedAction
            /\ lastDetectionTime' = r.lastDetectionTime
            /\ obs' = [op |-> "frame", probs |-> probs]
            /\ tensor' = r.tensor
            /\ event' = r.result
            /\ emitLog' = Logged(emitLog, r.result, now)
            /\ UNCHANGED <<model, ready, isLoading, stabilityVars, now, frameNo,
                   appVars, extraVars>>

CooldownClearBuffer ==
    /\ frameBuffer' = <<>>
    /\ lastDetectedAction' = ""
    /\ lastDetectionTime' = 0
    /\ obs' = Op("clearBuffer")
    /\ tensor' = NoTensor
    /\ event' = NoEvent
    /\ emitLog' = <<>>
    /\ UNCHANGED <<model, ready, isLoading, stabilityVars, now, frameNo,
                   appVars, extraVars>>

CooldownTick == Tick(CooldownTickMs)

NextCooldown ==
    \/ InitializeCall
    \/ LoadSucceeds
    \/ LoadFails
    \/ CooldownFrame
    \/ IdleFrame
    \/ CooldownClearBuffer
    \/ CooldownTick

SpecCooldown == InitCooldown /\ [][NextCooldown]_vars

(***************************************************************************)
(* SpecCooldownAwait: predict() of src/unnamed/part_004 in its two parts,  *)
(* up to "await prediction.data()" (lines 45-56) and after it (lines       *)
(* 57-89), with clearBuffer() called by the handlers of Index at any time. *)
(* A frame is the number of its push.                                      *)
(***************************************************************************)

\* a tick of the loop up to the await of predict(): pushFrame, then null at
\* line 45 or the window copied and handed to the classifier; the loop
\* awaits predict() before its next tick
PredictBegin ==
    /\ ~pendingPredict
    /\ frameNo <= MaxFrames
    /\ frameNo' = frameNo + 1
    /\ LET pushed == pushFrame(frameBuffer, frameNo)
       IN  /\ frameBuffer' = pushed
           /\ IF predictGuard(model, pushed)
              THEN /\ tensor' = NoTensor
                   /\ pendingPredict' = FALSE
                   /\ obs' = Op("predict")
              ELSE /\ tensor' = [i \in 1..SEQUENCE_LENGTH |-> pushed[i]]
                   /\ pendingPredict' = TRUE
                   /\ obs' = Op("predictBegin")
    /\ event' = NoEvent
    /\ UNCHANGED <<model, ready, isLoading, stabilityVars, cooldownVars, now,
                   emitLog, appVars, featureVars, detectorVars,
                   detectorLoading, detectorLoads, loads, tfMemory, chains>>

\* predict() after its await: the classifier answered for the window it was
\* given, and lines 59-86 run on the fields as they are now
PredictEnd ==
    /\ pendingPredict
    /\ \E probs \in CooldownDistributions :
          LET r == predictCooldown("loaded", tensor, lastDetectedAction,
                                   lastDetectionTime, now, probs)
          IN  /\ lastDetectedAction' = r.lastDetectedAction
              /\ lastDetectionTime' = r.lastDetectionTime
              /\ event' = r.result
              /\ emitLog' = Logged(emitLog, r.result, now)
              /\ obs' = [op |-> "predict", probs |-> probs]
    /\ pendingPredict' = FALSE
    /\ UNCHANGED <<pipelineVars, stabilityVars, now, frameNo, tensor, appVars,
                   featureVars, detectorVars, detectorLoading, detectorLoads,
                   loads, tfMemory, chains>>

\* clearBuffer(), called by handleSubmitWord and handleClearCurrentWord
AwaitClearBuffer ==
    /\ frameBuffer # <<>>
    /\ frameBuffer' = <<>>
    /\ lastDetectedAction' = ""
    /\ lastDetectionTime' = 0
    /\ obs' = Op("clearBuffer")
    /\ UNCHANGED <<model, ready, isLoading, stabilityVars, now, frameNo,
                   tensor, event, emitLog, appVars, extraVars>>

NextCooldownAwait ==
    \/ InitializeCall
    \/ LoadSucceeds
    \/ LoadFails
    \/ PredictBegin
    \/ PredictEnd
    \/ AwaitClearBuffer
    \/ CooldownTick

SpecCooldownAwait == InitCooldown /\ [][NextCooldownAwait]_vars

(***************************************************************************)
(* SpecStability: ActionLstmPipeline of src/unnamed/part_005, lines 90-206.*)
(***************************************************************************)
STABILITY_WINDOW == 8
LOCKOUT_MS == 1500
RETRIGGER_MS == 3000
Searching == "searching"

\* two of the three classes, one answer below the threshold
StabilityDistributions == { <<85, 10, 5>>, <<5, 90, 5>>, <<84, 10, 6>> }

\* let maxIdx = 0; let maxProb = 0; for (let i = 0; ...)
ArgMaxFromZero(probs) == ArgMaxLoop(probs, 1, 1, 0)

\* if (now - this.lastTriggerTime < 1500) return null;
lockedOut(t, lastTime) == t - lastTime < LOCKOUT_MS

\* this.stabilityBuffer.every(val => val === currentAction)
isConsistent(sbuf, currentAction) ==
    \A i \in 1..Len(sbuf) : sbuf[i] = currentAction

\* a gate that never repeats the last label
mayTriggerOnlyNew(currentAction, lastAction, t, lastTime) ==
    currentAction # lastAction

\* a gate whose re-trigger time holds back every label
mayTriggerAfterTimeOnly(currentAction, lastAction, t, lastTime) ==
    t - lastTime > RETRIGGER_MS

\* currentAction !== this.lastTriggeredAction || (now - this.lastTriggerTime > 3000)
mayTrigger(currentAction, lastAction, t, lastTime) ==
    currentAction # lastAction \/ t - lastTime > RETRIGGER_MS

\* push of the observed label, shift once longer than STABILITY_WINDOW
pushStability(sbuf, label) ==
    LET pushed == Append(sbuf, label)
    IN  IF Len(pushed) > STABILITY_WINDOW THEN Tail(pushed) ELSE pushed

predictStability(m, buf, sbuf, lastAction, lastTime, t, probs) ==
    LET nothing(tens, sb) == [tensor |-> tens, result |-> NoEvent,
                              stabilityBuffer |-> sb,
                              lastTriggeredAction |-> lastAction,
                              lastTriggerTime |-> lastTime]
    IN  IF predictGuard(m, buf) THEN nothing(NoTensor, sbuf)
        ELSE IF lockedOut(t, lastTime) THEN nothing(NoTensor, sbuf)
        ELSE LET inputData == [i \in 1..SEQUENCE_LENGTH |-> buf[i]]
                 best == ArgMaxFromZero(probs)
                 currentAction == ACTION_CLASSES[best[1]]
                 confident == best[2] >= CONFIDENCE_THRESHOLD
                 pushed == pushStability(sbuf, IF confident THEN currentAction
                                               ELSE Searching)
             IN  IF /\ isConsistent(pushed, currentAction)
                    /\ confident
                    /\ mayTrigger(currentAction, lastAction, t, lastTime)
                 THEN [tensor |-> inputData,
                       result |-> [action |-> currentAction,
                                   confidence |-> best[2]],
                       stabilityBuffer |-> <<>>,
                       lastTriggeredAction |-> currentAction,
                       lastTriggerTime |-> t]
                 ELSE nothing(inputData, pushed)

\* clearBuffer(): lastTriggerTime is not assigned
clearBufferStability(buf, sbuf, lastAction, lastTime) ==
    [frameBuffer |-> <<>>, stabilityBuffer |-> <<>>,
     lastTriggeredAction |-> Null, lastTriggerTime |-> lastTime]

InitStability == InitCooldown

\* a frame tick with features and a hand: pushFrame, then predict
StabilityFrame ==
    \E probs \in StabilityDistributions :
        LET pushed == pushFrame(frameBuffer, Features)
            r == predictStability(model, pushed, stabilityBuffer,
                                  lastTriggeredAction, lastTriggerTime, now,
                                  probs)
        IN  /\ frameBuffer' = pushed
            /\ stabilityBuffer' = r.stabilityBuffer
            /\ lastTriggeredAction' = r.lastTriggeredAction
            /\ lastTriggerTime' = r.lastTriggerTime
            /\ obs' = [op |-> "frame", probs |-> probs]
            /\ tensor' = r.tensor
            /\ event' = r.result
            /\ emitLog' = Logged(emitLog, r.result, now)
            /\ UNCHANGED <<model, ready, isLoading, cooldownVars, now, frameNo,
                   appVars, extraVars>>

StabilityClearBuffer ==
    LET r == clearBufferStability(frameBuffer, stabilityBuffer,
                                  lastTriggeredAction, lastTriggerTime)
    IN  /\ frameBuffer' = r.frameBuffer
        /\ stabilityBuffer' = r.stabilityBuffer
        /\ lastTriggeredAction' = r.lastTriggeredAction
        /\ lastTriggerTime' = r.lastTriggerTime
        /\ obs' = Op("clearBuffer")
        /\ tensor' = NoTensor
        /\ event' = NoEvent
        /\ emitLog' = <<>>
        /\ UNCHANGED <<model, ready, isLoading, cooldownVars, now, frameNo,
                   appVars, extraVars>>

StabilityTick == Tick(StabilityTickMs)

NextStability ==
    \/ InitializeCall
    \/ LoadSucceeds
    \/ LoadFails
    \/ StabilityFrame
    \/ IdleFrame
    \/ StabilityClearBuffer
    \/ StabilityTick

SpecStability == InitStability /\ [][NextStability]_vars

(***************************************************************************)
(* SpecApp: the page.  Index (src/src/pages/Index.tsx) owns the word being *)
(* spelled and the pause; CameraFeed (src/src/components/CameraFeed.tsx,   *)
(* lines 1-224) owns the camera, the frame loop and the filter bank; the   *)
(* pipeline is the one of src/src/lib/actionLstmPipeline.ts.  The camera   *)
(* is granted whenever it is asked for, the detector is ready, and one     *)
(* tick of the frame loop is one step.                                     *)
(***************************************************************************)
MaxHistory == 1

\* performance.now() of a page opened when the clock showed StartTime
PerformanceNow(t) == t - StartTime

\* the coordinates a frame can carry on a channel, and what the classifier
\* may answer
PoseSamples == {500}
HandSamples == {0, 500}
AppDistributions == { <<85, 10, 5>>, <<84, 10, 6>> }

\* checkFingerSanity(handLandmarks, action) on a frame with a hand
checkFingerSanity(isMiddleUp, isRingUp, action) ==
    IF action = "iloveyou" THEN ~isMiddleUp /\ ~isRingUp
    ELSE IF action = "hello" THEN isMiddleUp /\ isRingUp
    ELSE TRUE

\* an updater that appends whatever the word ends with
handleSignDetectedAlways(prev, letter) == Append(prev, letter)

\* handleSignDetected: prev.endsWith(letter) ? prev : prev + letter
handleSignDetected(prev, letter) ==
    IF prev # <<>> /\ prev[Len(prev)] = letter THEN prev
    ELSE Append(prev, letter)

InitApp ==
    /\ model = Null
    /\ ready = FALSE
    /\ isLoading = FALSE
    /\ frameBuffer = <<>>
    /\ stabilityBuffer = <<>>
    /\ lastTriggeredAction = Null
    /\ lastTriggerTime = 0
    /\ lastDetectedAction = ""
    /\ lastDetectionTime = 0
    /\ now = StartTime
    /\ frameNo = 1
    /\ obs = Op("new")
    /\ tensor = NoTensor
    /\ event = NoEvent
    /\ emitLog = <<>>
    /\ AppInitial
    /\ DetectorInitial

\* the effect of CameraFeed runs init(): actionLstmPipeline.initialize()
AppInitialize ==
    /\ renderFrameRef = Null
    /\ ~isSwitching
    /\ obs.op # "loadFailed"
    /\ InitializeCall

\* init() after initialize() resolved: start(), then setStatus("ready")
AppStart ==
    /\ renderFrameRef = Null
    /\ ~isSwitching
    /\ ~isLoading
    /\ ready \/ obs.op = "loadFailed"
    /\ processingLocked' = FALSE
    /\ renderFrameRef' = "scheduled"
    /\ status' = "ready"
    /\ UNCHANGED <<pipelineVars, stabilityVars, cooldownVars, now, frameNo,
                   obs, tensor, event, emitLog, filters, facingMode,
                   isSwitching, indexVars, extraVars>>

\* loop(): a tick with features and a hand
AppFrame ==
    /\ renderFrameRef = "scheduled"
    /\ ~processingLocked
    /\ ~isPaused
    /\ frameNo <= MaxFrames
    /\ \E pose \in PoseSamples, hand \in HandSamples,
          probs \in AppDistributions \cup {Thrown}, isMiddleUp \in BOOLEAN,
          isRingUp \in BOOLEAN :
        LET features == [c \in Channels |-> IF c = "pose" THEN pose ELSE hand]
            s == smooth(filters, features, PerformanceNow(now))
            pushed == pushFrame(frameBuffer, Features)
            r == predictOrThrow(model, pushed, probs)
            isValid == /\ r.result \notin {NoEvent, Rejected}
                       /\ checkFingerSanity(isMiddleUp, isRingUp,
                                            r.result.action)
        IN  /\ filters' = s.filters
            /\ frameBuffer' = pushed
            /\ tensor' = r.tensor
            /\ event' = r.result
            /\ currentWord' = IF isValid
                              THEN handleSignDetected(currentWord, r.result.action)
                              ELSE currentWord
            /\ currentSign' = IF isValid THEN r.result.action ELSE currentSign
            /\ frameNo' = frameNo + 1
            /\ renderFrameRef' = IF r.result = Rejected THEN "fired"
                                 ELSE renderFrameRef
            /\ UNCHANGED <<model, ready, isLoading, stabilityVars,
                           cooldownVars, now, obs, emitLog, status,
                           facingMode, isSwitching, processingLocked,
                           isPaused, pauseTimeoutRef, signHistory,
                           extraVars>>

\* the effect of CameraFeed runs again when isPaused changes, start being
\* built from isPaused: start() requests a tick for a loop that has stopped
restarted(ref, paused, paused1) ==
    IF paused1 # paused /\ ref = "fired" THEN "scheduled" ELSE ref

\* handleSubmitWord
SubmitWord ==
    /\ currentWord # <<>>
    /\ Len(signHistory) < MaxHistory
    /\ signHistory' = Append(signHistory, currentWord)
    /\ currentWord' = <<>>
    /\ currentSign' = Null
    /\ frameBuffer' = clearBuffer(frameBuffer)
    /\ isPaused' = TRUE
    /\ pauseTimeoutRef' = "timer"
    /\ renderFrameRef' = restarted(renderFrameRef, isPaused, TRUE)
    /\ UNCHANGED <<model, ready, isLoading, stabilityVars, cooldownVars, now,
                   frameNo, obs, tensor, event, emitLog, filters, status,
                   facingMode, isSwitching, processingLocked, extraVars>>

\* handleClearCurrentWord
ClearCurrentWord ==
    /\ currentWord' = <<>>
    /\ currentSign' = Null
    /\ frameBuffer' = clearBuffer(frameBuffer)
    /\ isPaused' = TRUE
    /\ pauseTimeoutRef' = "timer"
    /\ renderFrameRef' = restarted(renderFrameRef, isPaused, TRUE)
    /\ UNCHANGED <<model, ready, isLoading, stabilityVars, cooldownVars, now,
                   frameNo, obs, tensor, event, emitLog, filters, status,
                   facingMode, isSwitching, processingLocked, signHistory,
                   extraVars>>

\* the 400 ms timer of the pause fires
PauseTimeout ==
    /\ pauseTimeoutRef = "timer"
    /\ isPaused' = FALSE
    /\ pauseTimeoutRef' = Null
    /\ renderFrameRef' = restarted(renderFrameRef, isPaused, FALSE)
    /\ UNCHANGED <<pipelineVars, stabilityVars, cooldownVars, now, frameNo,
                   obs, tensor, event, emitLog, filters, status, facingMode,
                   isSwitching, processingLocked, currentWord, currentSign,
                   signHistory, extraVars>>

\* toggleCamera, up to its 500 ms wait: cleanup(), clearBuffer() and the
\* reset of the detector, which holds none of the state followed here
ToggleCameraBegin ==
    /\ status = "ready"
    /\ ~isSwitching
    /\ isSwitching' = TRUE
    /\ processingLocked' = TRUE
    /\ renderFrameRef' = Null
    /\ frameBuffer' = clearBuffer(frameBuffer)
    /\ UNCHANGED <<model, ready, isLoading, stabilityVars, cooldownVars, now,
                   frameNo, obs, tensor, event, emitLog, filters, status,
                   facingMode, indexVars, extraVars>>

\* toggleCamera after the wait: the other camera, a new session key
ToggleCameraEnd ==
    /\ isSwitching
    /\ facingMode' = IF facingMode = "user" THEN "environment" ELSE "user"
    /\ isSwitching' = FALSE
    /\ obs' = Op("toggleCamera")
    /\ UNCHANGED <<pipelineVars, stabilityVars, cooldownVars, now, frameNo,
                   tensor, event, emitLog, filters, status, processingLocked,
                   renderFrameRef, indexVars, extraVars>>

NextApp ==
    \/ AppInitialize
    \/ LoadSucceeds
    \/ LoadFails
    \/ AppStart
    \/ AppFrame
    \/ SubmitWord
    \/ ClearCurrentWord
    \/ PauseTimeout
    \/ ToggleCameraBegin
    \/ ToggleCameraEnd

SpecApp == InitApp /\ [][NextApp]_vars

(***************************************************************************)
(* SpecFeatures: resultsToFeatures on detection results of every shape.    *)
(* Point i of a group carries 10 i + 1, 10 i + 2, 10 i + 3 as x, y, z and  *)
(* 10 i + 4 as visibility, so that a slot tells which coordinate it holds. *)
(***************************************************************************)
PointOf(i) ==
    [present |-> TRUE, x |-> 10 * i + 1, y |-> 10 * i + 2, z |-> 10 * i + 3,
     visibility |-> 10 * i + 4]

\* the shapes of a landmark array of a group of count points
Shape(kind, count) ==
    CASE kind = "undefined" -> NoLandmarks
      [] kind = "empty" -> [defined |-> TRUE, points |-> <<>>]
      [] kind = "complete" ->
            [defined |-> TRUE, points |-> [i \in 1..count |-> PointOf(i)]]
      [] kind = "holes" ->
            [defined |-> TRUE,
             points |-> [i \in 1..count |->
                            IF i % 2 = 1 THEN NoPoint ELSE PointOf(i)]]
      [] kind = "short" ->
            [defined |-> TRUE, points |-> <<PointOf(1), PointOf(2)>>]
      [] kind = "noVisibility" ->
            [defined |-> TRUE,
             points |-> [i \in 1..count |->
                            [PointOf(i) EXCEPT !.visibility = Undefined]]]
      [] kind = "notANumber" ->
            [defined |-> TRUE,
             points |-> [i \in 1..count |->
                            IF i = 1
                            THEN [PointOf(i) EXCEPT !.x = NaN, !.y = Undefined]
                            ELSE PointOf(i)]]

PoseKinds ==
    {"undefined", "empty", "complete", "holes", "short", "noVisibility",
     "notANumber"}
FaceKinds == {"undefined", "empty", "complete", "holes"}
HandKinds == {"undefined", "empty", "complete", "holes", "notANumber"}

InitFeatures ==
    /\ model = Null
    /\ ready = FALSE
    /\ isLoading = FALSE
    /\ frameBuffer = <<>>
    /\ stabilityBuffer = <<>>
    /\ lastTriggeredAction = Null
    /\ lastTriggerTime = 0
    /\ lastDetectedAction = ""
    /\ lastDetectionTime = 0
    /\ now = StartTime
    /\ frameNo = 1
    /\ obs = Op("new")
    /\ tensor = NoTensor
    /\ event = NoEvent
    /\ emitLog = <<>>
    /\ AppInitial
    /\ DetectorInitial

\* the detector hands a result to the builder
DetectResults ==
    /\ featureVector # <<>> \/ results = NoResults
    /\ \E pose \in PoseKinds, face \in FaceKinds, left \in HandKinds,
          right \in HandKinds :
          results' = [poseLandmarks |-> Shape(pose, POSE_COUNT),
                      faceLandmarks |-> Shape(face, FACE_COUNT),
                      leftHandLandmarks |-> Shape(left, HAND_COUNT),
                      rightHandLandmarks |-> Shape(right, HAND_COUNT)]
    /\ featureVector' = <<>>
    /\ UNCHANGED <<pipelineVars, stabilityVars, cooldownVars, now, frameNo,
                   obs, tensor, event, emitLog, appVars, smoothed,
                   detectorVars, asyncVars>>

BuildFeatures ==
    /\ featureVector = <<>>
    /\ featureVector' = extractFeaturesFor(results, facingMode = "environment")
    /\ UNCHANGED <<pipelineVars, stabilityVars, cooldownVars, now, frameNo,
                   obs, tensor, event, emitLog, appVars, results, smoothed,
                   detectorVars, asyncVars>>

NextFeatures ==
    \/ DetectResults
    \/ BuildFeatures

SpecFeatures == InitFeatures /\ [][NextFeatures]_vars

(***************************************************************************)
(* SpecFilter: the filter bank of src/unnamed/part_003, lines 86-193, fed  *)
(* frame by frame, with and without timestamps, and reset.                 *)
(* SpecFilterFirst: the same calls on the bank of lines 1-85.              *)
(***************************************************************************)
MaxFilterCalls == 4
FilterPoseSamples == {500, 900}
FilterHandSamples == {0, 500, 900}
FilterSteps == {40, 50}
FilterOps == {"filter", "filterAt"}

InitFilter ==
    /\ model = Null
    /\ ready = FALSE
    /\ isLoading = FALSE
    /\ frameBuffer = <<>>
    /\ stabilityBuffer = <<>>
    /\ lastTriggeredAction = Null
    /\ lastTriggerTime = 0
    /\ lastDetectedAction = ""
    /\ lastDetectionTime = 0
    /\ now = StartTime
    /\ frameNo = 1
    /\ obs = Op("new")
    /\ tensor = NoTensor
    /\ event = NoEvent
    /\ emitLog = <<>>
    /\ AppInitial
    /\ results = NoResults
    /\ featureVector = [c \in Channels |-> 0]
    /\ smoothed = [c \in Channels |-> 0]
    /\ isProcessing = FALSE
    /\ resolveDetection = 0
    /\ lastResults = 0
    /\ sends = <<>>
    /\ timers = {}
    /\ awaiting = {}
    /\ settled = NoCall
    /\ detectorReady = FALSE
    /\ detectorLoading = FALSE
    /\ detectorLoads = 0
    /\ loads = 0
    /\ pendingPredict = FALSE
    /\ tfMemory = NoTensors
    /\ chains = {}

\* what a call of smooth leaves, s being what it returned
FilterCall(input, hasTs, s) ==
    /\ featureVector' = input
    /\ filters' = s.filters
    /\ smoothed' = s.smoothed
    /\ frameNo' = frameNo + 1
    /\ obs' = Op(IF hasTs THEN "filterAt" ELSE "filter")
    /\ UNCHANGED <<pipelineVars, stabilityVars, cooldownVars, tensor, event,
                   emitLog, status, facingMode, isSwitching, processingLocked,
                   renderFrameRef, isPaused, pauseTimeoutRef, indexVars,
                   results, detectorVars, asyncVars>>

\* smooth(features, ts) of lines 176-188 after stepMs more milliseconds
FilterFrame ==
    /\ frameNo <= MaxFilterCalls
    /\ \E pose \in FilterPoseSamples, hand \in FilterHandSamples,
          hasTs \in BOOLEAN, stepMs \in FilterSteps :
          /\ now' = now + stepMs
          /\ LET input == [c \in Channels |-> IF c = "pose" THEN pose ELSE hand]
                 t == PerformanceNow(now')
             IN  FilterCall(input, hasTs, smoothAt(filters, input, hasTs, t, t))

\* smooth(features, ts) of lines 72-82 after stepMs more milliseconds
FirstFilterFrame ==
    /\ frameNo <= MaxFilterCalls
    /\ \E pose \in FilterPoseSamples, hand \in FilterHandSamples,
          hasTs \in BOOLEAN, stepMs \in FilterSteps :
          /\ now' = now + stepMs
          /\ LET input == [c \in Channels |-> IF c = "pose" THEN pose ELSE hand]
                 t == PerformanceNow(now')
             IN  FilterCall(input, hasTs, smoothFirst(filters, input, hasTs, t, t))

\* LandmarkSmoother.reset() after a frame
ResetBank ==
    /\ obs.op \in FilterOps
    /\ filters' = resetBank(filters)
    /\ obs' = Op("reset")
    /\ UNCHANGED <<pipelineVars, stabilityVars, cooldownVars, now, frameNo,
                   tensor, event, emitLog, status, facingMode, isSwitching,
                   processingLocked, renderFrameRef, isPaused, pauseTimeoutRef,
                   indexVars, extraVars>>

NextFilter ==
    \/ FilterFrame
    \/ ResetBank

SpecFilter == InitFilter /\ [][NextFilter]_vars

\* the timestamps a caller of smooth(features, ts) hands over, in
\* milliseconds, in any order
TimeStamps == {20, 40, 60, 80}
FrameMs == 40

\* smooth(features, ts) of lines 176-188 with a timestamp of the caller's
\* choice, or with none
TimedFilterFrame ==
    /\ frameNo <= MaxFilterCalls
    /\ now' = now + FrameMs
    /\ \E pose \in FilterPoseSamples, hand \in FilterHandSamples,
          hasTs \in BOOLEAN, ts \in TimeStamps :
          /\ hasTs \/ ts = 20
          /\ LET input == [c \in Channels |-> IF c = "pose" THEN pose ELSE hand]
             IN  FilterCall(input, hasTs,
                            smoothAt(filters, input, hasTs, ts,
                                     PerformanceNow(now')))

NextFilterTime == TimedFilterFrame

SpecFilterTime == InitFilter /\ [][NextFilterTime]_vars

\* smootherRef.current.smooth(features), as the frame loops call it, after
\* stepMs more milliseconds
LoopFilterFrame ==
    /\ frameNo <= MaxFilterCalls
    /\ \E pose \in FilterPoseSamples, hand \in FilterHandSamples,
          stepMs \in FilterSteps :
          /\ now' = now + stepMs
          /\ LET input == [c \in Channels |-> IF c = "pose" THEN pose ELSE hand]
             IN  FilterCall(input, FALSE,
                            smooth(filters, input, PerformanceNow(now')))

NextFilterLoop ==
    \/ LoopFilterFrame
    \/ ResetBank

SpecFilterLoop == InitFilter /\ [][NextFilterLoop]_vars

NextFilterFirst ==
    \/ FirstFilterFrame
    \/ ResetBank

SpecFilterFirst == InitFilter /\ [][NextFilterFirst]_vars

(***************************************************************************)
(* SpecDetector: HolisticDetector of src/src/lib/mediapipeDetector.ts,     *)
(* lines 5-90, called by frame loops that may overlap, with the detector   *)
(* answering, failing or staying silent.  A call of extractFeatures and    *)
(* the send it makes carry the same number; the send of rebind() for its   *)
(* canvas is number -1.  When a call settles, the loop that awaited it     *)
(* goes on as in CameraFeed.tsx, lines 106-146.                            *)
(***************************************************************************)
MaxCalls == 4
CanvasSend == 0 - 1

InitDetector ==
    /\ model = Null
    /\ ready = FALSE
    /\ isLoading = FALSE
    /\ frameBuffer = <<>>
    /\ stabilityBuffer = <<>>
    /\ lastTriggeredAction = Null
    /\ lastTriggerTime = 0
    /\ lastDetectedAction = ""
    /\ lastDetectionTime = 0
    /\ now = StartTime
    /\ frameNo = 1
    /\ obs = Op("new")
    /\ tensor = NoTensor
    /\ event = NoEvent
    /\ emitLog = <<>>
    /\ AppInitial
    /\ DetectorInitial

\* an extraction that lets a rejection through to its caller
uncaught(outcome) == outcome

\* try { ... } catch (err) { return null; } of extractFeatures
caught(outcome) == IF outcome = "rejected" THEN "null" ELSE outcome

\* if (features && (results?.leftHandLandmarks || results?.rightHandLandmarks))
loopProcesses(outcome, hasHands) == outcome = "features" /\ hasHands

\* the oldest of a set of calls
Oldest(S) == CHOOSE x \in S : \A y \in S : x <= y

\* call c settles; the loop that awaited it smooths and pushes the frame and
\* calls predict() when it was given features of a frame with a hand
Settle(c, outcome, cause, from, hasHands) ==
    /\ settled' = [call |-> c, outcome |-> caught(outcome), cause |-> cause,
                   from |-> from]
    /\ IF loopProcesses(caught(outcome), hasHands)
       THEN LET input == [ch \in Channels |-> 500]
                s == smooth(filters, input, PerformanceNow(now))
                pushed == pushFrame(frameBuffer, from)
                r == predict(model, pushed, <<>>)
            IN  /\ filters' = s.filters
                /\ smoothed' = s.smoothed
                /\ frameBuffer' = pushed
                /\ tensor' = r.tensor
                /\ event' = r.result
       ELSE UNCHANGED <<filters, smoothed, frameBuffer, tensor, event>>

\* no call settles in this step
NoSettle == UNCHANGED <<settled, filters, smoothed, frameBuffer, tensor, event>>

\* what no step of the detector assigns
DetectorFrame ==
    UNCHANGED <<model, ready, isLoading, stabilityVars, cooldownVars, now,
                emitLog, status, facingMode, isSwitching, processingLocked,
                renderFrameRef, isPaused, pauseTimeoutRef, indexVars, results,
                featureVector, asyncVars>>

\* initialize(), with the result of its canvas send delivered
DetectorInitialize ==
    /\ ~detectorReady
    /\ detectorReady' = TRUE
    /\ isProcessing' = FALSE
    /\ resolveDetection' = 0
    /\ lastResults' = CanvasSend
    /\ obs' = Op("initialize")
    /\ NoSettle
    /\ DetectorFrame
    /\ UNCHANGED <<frameNo, sends, timers, awaiting>>

\* an extractFeatures that starts no timer
noTimeout(ts, c) == ts

\* setTimeout(() => { this.isProcessing = false; reject("Timeout"); }, 1500)
setTimeout(ts, c) == ts \cup {c}

\* extractFeatures(video) up to its await: null at once at line 65, or the
\* flag, the timer, the resolver and the send
ExtractFeatures ==
    /\ frameNo <= MaxCalls
    /\ frameNo' = frameNo + 1
    /\ obs' = Op("extractFeatures")
    /\ DetectorFrame
    /\ \E videoReady \in BOOLEAN :
          IF ~detectorReady \/ isProcessing \/ ~videoReady
          THEN /\ Settle(frameNo, "null",
                         IF ~detectorReady THEN "notReady"
                         ELSE IF isProcessing THEN "busy" ELSE "noVideo",
                         0, FALSE)
               /\ UNCHANGED <<isProcessing, resolveDetection, lastResults,
                              sends, timers, awaiting, detectorReady>>
          ELSE /\ isProcessing' = TRUE
               /\ timers' = setTimeout(timers, frameNo)
               /\ resolveDetection' = frameNo
               /\ sends' = Append(sends, frameNo)
               /\ awaiting' = awaiting \cup {frameNo}
               /\ NoSettle
               /\ UNCHANGED <<lastResults, detectorReady>>

\* the detector answers its oldest send: the onResults callback
SendAnswers ==
    /\ sends # <<>>
    /\ LET s == Head(sends)
           c == resolveDetection
       IN  /\ sends' = Tail(sends)
           /\ lastResults' = s
           /\ resolveDetection' = 0
           /\ timers' = timers \ {c}
           /\ awaiting' = awaiting \ {c}
           /\ isProcessing' = FALSE
           /\ obs' = Op("onResults")
           /\ IF c \in awaiting
              THEN \E hasHands \in BOOLEAN :
                      Settle(c, "features", "results", s, hasHands /\ s > 0)
              ELSE NoSettle
    /\ DetectorFrame
    /\ UNCHANGED <<frameNo, detectorReady>>

\* the oldest send fails, a video frame: the catch callback of line 80
SendFails ==
    /\ sends # <<>>
    /\ Head(sends) > 0
    /\ LET s == Head(sends)
       IN  /\ sends' = Tail(sends)
           /\ isProcessing' = FALSE
           /\ awaiting' = awaiting \ {s}
           /\ obs' = Op("sendFailed")
           /\ IF s \in awaiting
              THEN Settle(s, "rejected", "sendFailed", 0, FALSE)
              ELSE NoSettle
    /\ DetectorFrame
    /\ UNCHANGED <<frameNo, resolveDetection, lastResults, timers,
                   detectorReady>>

\* the oldest pending timer fires: the callback of lines 70-73
Timeout ==
    /\ timers # {}
    /\ LET c == Oldest(timers)
       IN  /\ timers' = timers \ {c}
           /\ isProcessing' = FALSE
           /\ awaiting' = awaiting \ {c}
           /\ obs' = Op("timeout")
           /\ IF c \in awaiting
              THEN Settle(c, "rejected", "timeout", 0, FALSE)
              ELSE NoSettle
    /\ DetectorFrame
    /\ UNCHANGED <<frameNo, resolveDetection, lastResults, sends,
                   detectorReady>>

\* rebind(), called on a camera switch, while no canvas send is pending
Rebind ==
    /\ detectorReady
    /\ \A i \in 1..Len(sends) : sends[i] # CanvasSend
    /\ isProcessing' = FALSE
    /\ resolveDetection' = 0
    /\ sends' = Append(sends, CanvasSend)
    /\ obs' = Op("rebind")
    /\ NoSettle
    /\ DetectorFrame
    /\ UNCHANGED <<frameNo, lastResults, timers, awaiting, detectorReady>>

NextDetector ==
    \/ DetectorInitialize
    \/ ExtractFeatures
    \/ SendAnswers
    \/ SendFails
    \/ Timeout
    \/ Rebind

SpecDetector == InitDetector /\ [][NextDetector]_vars

\* a timer that was set fires: the browser runs its callback once its delay
\* has passed
SpecDetectorFair == SpecDetector /\ WF_vars(Timeout)

(***************************************************************************)
(* SpecLoops: the frame loops of CameraFeed (CameraFeed.tsx, lines 45-177) *)
(* as chains of ticks.  A chain is the loop closure of one start() with    *)
(* the isPaused it was built with, the steps it has run for its frame and  *)
(* whether it has requested its next tick.  Frames carry the number of     *)
(* their chain.                                                            *)
(***************************************************************************)
MaxChains == 2
MaxLoopFrames == 3

\* the order of the steps of one frame
FrameOrder ==
    <<"extractFeatures", "smooth", "pushFrame", "predict", "settled",
      "onSignDetected">>

NewChain(id, paused) ==
    [id |-> id, isPaused |-> paused, steps |-> <<>>, requested |-> TRUE]

\* a loop that runs its next tick whatever it is waiting for
tickAnyTime(c) == TRUE

\* the tick of a chain runs when the frame it requested comes
tickRequested(c) == c.requested

\* cancelAnimationFrame(renderFrameRef.current): the tick that the chain
\* that wrote the handle last has requested
cancelled(all, ref) == {c \in all : ~(c.id = ref /\ c.requested)}

\* requestAnimationFrame(loop) at the end of a tick, c being what went before
reschedule(c, steps) == [c EXCEPT !.steps = steps, !.requested = TRUE]

LoopsFrame ==
    UNCHANGED <<model, ready, isLoading, stabilityVars, cooldownVars, now,
                tensor, emitLog, status, facingMode, isSwitching,
                pauseTimeoutRef, currentWord, currentSign, signHistory,
                featureVars, detectorVars, detectorLoading, detectorLoads,
                loads, pendingPredict, tfMemory>>

InitLoops ==
    /\ model = Null
    /\ ready = FALSE
    /\ isLoading = FALSE
    /\ frameBuffer = <<>>
    /\ stabilityBuffer = <<>>
    /\ lastTriggeredAction = Null
    /\ lastTriggerTime = 0
    /\ lastDetectedAction = ""
    /\ lastDetectionTime = 0
    /\ now = StartTime
    /\ frameNo = 1
    /\ obs = Op("new")
    /\ tensor = NoTensor
    /\ event = NoEvent
    /\ emitLog = <<>>
    /\ AppInitial
    /\ DetectorInitial

\* cleanup(), run by toggleCamera and when the effect is torn down
Cleanup ==
    /\ chains # {}
    /\ ~processingLocked
    /\ processingLocked' = TRUE
    /\ chains' = cancelled(chains, renderFrameRef)
    /\ obs' = Op("cleanup")
    /\ LoopsFrame
    /\ UNCHANGED <<frameBuffer, frameNo, event, filters, renderFrameRef,
                   isPaused>>

\* isPaused changes in Index: start is built anew, the effect is torn down
\* with cleanup() and runs again
PauseChanges ==
    /\ chains # {}
    /\ isPaused' = ~isPaused
    /\ processingLocked' = TRUE
    /\ chains' = cancelled(chains, renderFrameRef)
    /\ obs' = Op("isPaused")
    /\ LoopsFrame
    /\ UNCHANGED <<frameBuffer, frameNo, event, filters, renderFrameRef>>

\* start(): cleanup(), the camera stream, then the first tick of a new loop
LoopStart ==
    /\ frameNo <= MaxChains
    /\ frameNo = 1 \/ processingLocked
    /\ processingLocked' = FALSE
    /\ chains' = cancelled(chains, renderFrameRef)
                    \cup {NewChain(frameNo, isPaused)}
    /\ renderFrameRef' = frameNo
    /\ frameNo' = frameNo + 1
    /\ obs' = Op("start")
    /\ LoopsFrame
    /\ UNCHANGED <<frameBuffer, event, filters, isPaused>>

\* loop() up to its first await: extractFeatures is called, or the frame is
\* skipped and the next tick requested
TickBegin ==
    \E c \in chains :
        /\ tickRequested(c)
        /\ IF ~c.isPaused /\ ~processingLocked
           THEN /\ chains' = (chains \ {c})
                      \cup {[c EXCEPT !.steps = <<"extractFeatures">>,
                                      !.requested = FALSE]}
                /\ UNCHANGED renderFrameRef
           ELSE /\ chains' = (chains \ {c}) \cup {reschedule(c, <<>>)}
                /\ renderFrameRef' = c.id
        /\ obs' = Op("tick")
        /\ LoopsFrame
        /\ UNCHANGED <<frameBuffer, frameNo, event, filters,
                       processingLocked, isPaused>>

\* loop() after extractFeatures settled: without features or hands the next
\* tick is requested; otherwise smooth, pushFrame and the call of predict()
ExtractDone ==
    \E c \in chains, hasFeatures \in BOOLEAN :
        /\ ~c.requested
        /\ c.steps = <<"extractFeatures">>
        /\ IF loopProcesses(IF hasFeatures THEN "features" ELSE "null", TRUE)
           THEN /\ Len(frameBuffer) < MaxLoopFrames
                /\ LET input == [ch \in Channels |-> 500]
                       sm == smooth(filters, input, PerformanceNow(now))
                   IN  /\ filters' = sm.filters
                       /\ frameBuffer' = pushFrame(frameBuffer, c.id)
                /\ chains' = (chains \ {c})
                      \cup {[c EXCEPT !.steps = SubSeq(FrameOrder, 1, 4)]}
                /\ UNCHANGED renderFrameRef
           ELSE /\ chains' = (chains \ {c}) \cup {reschedule(c, c.steps)}
                /\ renderFrameRef' = c.id
                /\ UNCHANGED <<filters, frameBuffer>>
        /\ obs' = Op("extracted")
        /\ LoopsFrame
        /\ UNCHANGED <<frameNo, event, processingLocked, isPaused>>

\* loop() after predict() settled: onSignDetected for an event, then the
\* next tick is requested; a rejected predict() ends the loop, which has no
\* catch
PredictDone ==
    \E c \in chains, outcome \in {"event", "null", "thrown"} :
        /\ ~c.requested
        /\ c.steps = SubSeq(FrameOrder, 1, 4)
        /\ IF outcome = "thrown"
           THEN /\ chains' = chains \ {c}
                /\ UNCHANGED renderFrameRef
           ELSE /\ chains' = (chains \ {c})
                      \cup {reschedule(c, IF outcome = "event" THEN FrameOrder
                                          ELSE SubSeq(FrameOrder, 1, 5))}
                /\ renderFrameRef' = c.id
        /\ event' = IF outcome = "event"
                    THEN [action |-> "hello", confidence |-> CONFIDENCE_THRESHOLD]
                    ELSE NoEvent
        /\ obs' = Op("predicted")
        /\ LoopsFrame
        /\ UNCHANGED <<frameBuffer, frameNo, filters, processingLocked,
                       isPaused>>

NextLoops ==
    \/ Cleanup
    \/ PauseChanges
    \/ LoopStart
    \/ TickBegin
    \/ ExtractDone
    \/ PredictDone

SpecLoops == InitLoops /\ [][NextLoops]_vars

(***************************************************************************)
(* SpecSanity: the loop of CameraFeed.tsx (lines 124-141) over the         *)
(* pipeline of src/unnamed/part_004: predict() with its cooldown, then     *)
(* checkFingerSanity on what predict() returned.                           *)
(***************************************************************************)
MaxWord == 2

\* a frame tick with features and a hand: pushFrame, predict, then the
\* finger check decides whether onSignDetected gets the label
SanityFrame ==
    \E probs \in CooldownDistributions, isMiddleUp \in BOOLEAN,
       isRingUp \in BOOLEAN :
        LET pushed == pushFrame(frameBuffer, Features)
            r == predictCooldown(model, pushed, lastDetectedAction,
                                 lastDetectionTime, now, probs)
            isValid == /\ r.result # NoEvent
                       /\ checkFingerSanity(isMiddleUp, isRingUp,
                                            r.result.action)
        IN  /\ ~isPaused
            /\ Len(currentWord) < MaxWord
            /\ frameBuffer' = pushed
            /\ lastDetectedAction' = r.lastDetectedAction
            /\ lastDetectionTime' = r.lastDetectionTime
            /\ tensor' = r.tensor
            /\ event' = r.result
            /\ emitLog' = Logged(emitLog, r.result, now)
            /\ currentWord' = IF isValid
                              THEN handleSignDetected(currentWord, r.result.action)
                              ELSE currentWord
            /\ currentSign' = IF isValid THEN r.result.action ELSE currentSign
            /\ obs' = [op |-> IF r.result = NoEvent THEN "frame"
                              ELSE IF isValid THEN "onSignDetected"
                              ELSE "blocked",
                       probs |-> probs]
            /\ UNCHANGED <<model, ready, isLoading, stabilityVars, now, frameNo,
                           filters, status, facingMode, isSwitching,
                           processingLocked, renderFrameRef, isPaused,
                           pauseTimeoutRef, signHistory, extraVars>>

\* handleClearCurrentWord of Index: the word is emptied, clearBuffer() called
\* and the loop paused for 400 ms
SanityClearWord ==
    /\ currentWord' = <<>>
    /\ currentSign' = Null
    /\ frameBuffer' = <<>>
    /\ lastDetectedAction' = ""
    /\ lastDetectionTime' = 0
    /\ obs' = Op("clearCurrentWord")
    /\ tensor' = NoTensor
    /\ event' = NoEvent
    /\ emitLog' = <<>>
    /\ isPaused' = TRUE
    /\ pauseTimeoutRef' = "timer"
    /\ renderFrameRef' = restarted(renderFrameRef, isPaused, TRUE)
    /\ UNCHANGED <<model, ready, isLoading, stabilityVars, now, frameNo,
                   filters, status, facingMode, isSwitching,
                   processingLocked, signHistory, extraVars>>

NextSanity ==
    \/ InitializeCall
    \/ LoadSucceeds
    \/ LoadFails
    \/ SanityFrame
    \/ SanityClearWord
    \/ PauseTimeout
    \/ CooldownTick

SpecSanity == InitCooldown /\ [][NextSanity]_vars

(***************************************************************************)
(* SpecMount: CameraFeed mounted anew by Index (key={cameraKey}) over the  *)
(* pipeline object of the module, here that of src/unnamed/part_004.       *)
(***************************************************************************)
\* init() of the effect once both initialize() calls resolved: start() and
\* setStatus("ready")
MountStart ==
    /\ status = "loading"
    /\ ready
    /\ status' = "ready"
    /\ processingLocked' = FALSE
    /\ renderFrameRef' = "scheduled"
    /\ obs' = Op("start")
    /\ UNCHANGED <<pipelineVars, stabilityVars, cooldownVars, now, frameNo,
                   tensor, event, emitLog, filters, facingMode, isSwitching,
                   indexVars, extraVars>>

\* a frame tick of the mounted component
MountFrame == status = "ready" /\ CooldownFrame

\* the mode changes to speech and back: cameraKey is incremented, the old
\* CameraFeed is unmounted with cleanup() and a new one is mounted, whose
\* init() finds both models ready and goes on to start()
Remount ==
    /\ status = "ready"
    /\ filters' = [c \in Channels |-> NewFilter]
    /\ status' = "ready"
    /\ facingMode' = "user"
    /\ isSwitching' = FALSE
    /\ processingLocked' = FALSE
    /\ renderFrameRef' = "scheduled"
    /\ obs' = Op("mount")
    /\ UNCHANGED <<pipelineVars, stabilityVars, cooldownVars, now, frameNo,
                   tensor, event, emitLog, indexVars, extraVars>>

NextMount ==
    \/ InitializeCall
    \/ LoadSucceeds
    \/ LoadFails
    \/ MountStart
    \/ MountFrame
    \/ Remount
    \/ CooldownTick

SpecMount == InitCooldown /\ [][NextMount]_vars

(***************************************************************************)
(* SpecLoad: initialize() of the pipeline (actionLstmPipeline.ts, lines    *)
(* 19-30) and of the detector (mediapipeDetector.ts, lines 15-51), called   *)
(* by init() of the effect of CameraFeed (CameraFeed.tsx, lines 165-177).  *)
(* A chain is one run of init(), with the place it has reached.            *)
(***************************************************************************)
MaxInits == 3

\* a guard that forgets the load in progress
initializeGuardReadyOnly(r, l) == r

\* if (this._ready || this.isLoading) return;
initializeGuard(r, l) == r \/ l

pipeLoadVars == <<model, ready, isLoading, loads>>
detLoadVars ==
    <<detectorReady, detectorLoading, detectorLoads, isProcessing,
      resolveDetection, lastResults>>

LoadFrame ==
    UNCHANGED <<frameBuffer, stabilityVars, cooldownVars, now, tensor, event,
                emitLog, filters, facingMode, isSwitching, processingLocked,
                indexVars, featureVars, sends, timers, awaiting, settled,
                pendingPredict, tfMemory>>

at(c, pc) == [c EXCEPT !.pc = pc]

InitLoad == InitCooldown

\* the effect runs, at the mount or again when one of its values changed:
\* init() calls holisticDetector.initialize(), which returns at the guard or
\* goes up to the await of the canvas send of rebind()
EffectRuns ==
    /\ frameNo <= MaxInits
    /\ frameNo' = frameNo + 1
    /\ LET c == [id |-> frameNo, pc |-> "init"]
       IN  IF initializeGuard(detectorReady, detectorLoading)
           THEN /\ chains' = chains \cup {at(c, "detectorResolved")}
                /\ obs' = Op("detectorResolved")
                /\ UNCHANGED detLoadVars
           ELSE /\ chains' = chains \cup {at(c, "detectorLoading")}
                /\ detectorLoading' = TRUE
                /\ detectorLoads' = detectorLoads + 1
                /\ isProcessing' = FALSE
                /\ resolveDetection' = 0
                /\ obs' = Op("detectorInitialize")
                /\ UNCHANGED <<detectorReady, lastResults>>
    /\ LoadFrame
    /\ UNCHANGED <<pipeLoadVars, status, renderFrameRef>>

\* the canvas send resolved: _ready = true, finally isLoading = false
DetectorLoadSucceeds ==
    \E c \in chains :
        /\ c.pc = "detectorLoading"
        /\ chains' = (chains \ {c}) \cup {at(c, "detectorResolved")}
        /\ detectorReady' = TRUE
        /\ detectorLoading' = FALSE
        /\ detectorLoads' = detectorLoads - 1
        /\ isProcessing' = FALSE
        /\ lastResults' = CanvasSend
        /\ obs' = Op("detectorResolved")
        /\ LoadFrame
        /\ UNCHANGED <<pipeLoadVars, resolveDetection, frameNo, status,
                       renderFrameRef>>

\* the script is missing or the send rejected: catch, throw, finally
DetectorLoadFails ==
    \E c \in chains :
        /\ c.pc = "detectorLoading"
        /\ chains' = (chains \ {c}) \cup {at(c, "failed")}
        /\ detectorLoading' = FALSE
        /\ detectorLoads' = detectorLoads - 1
        /\ isProcessing' = FALSE
        /\ obs' = Op("detectorThrew")
        /\ LoadFrame
        /\ UNCHANGED <<pipeLoadVars, detectorReady, resolveDetection,
                       lastResults, frameNo, status, renderFrameRef>>

\* actionLstmPipeline.initialize() up to its return at the guard or to the
\* await of tf.ready()
PipelineInitializeCall ==
    \E c \in chains :
        /\ c.pc = "detectorResolved"
        /\ IF initializeGuard(ready, isLoading)
           THEN /\ chains' = (chains \ {c}) \cup {at(c, "pipelineResolved")}
                /\ obs' = Op("pipelineResolved")
                /\ UNCHANGED pipeLoadVars
           ELSE /\ chains' = (chains \ {c}) \cup {at(c, "pipelineLoading")}
                /\ isLoading' = TRUE
                /\ loads' = loads + 1
                /\ obs' = Op("pipelineInitialize")
                /\ UNCHANGED <<model, ready>>
        /\ LoadFrame
        /\ UNCHANGED <<detLoadVars, frameNo, status, renderFrameRef>>

\* tf.loadLayersModel resolved: _ready = true, finally isLoading = false
PipelineLoadSucceeds ==
    \E c \in chains :
        /\ c.pc = "pipelineLoading"
        /\ chains' = (chains \ {c}) \cup {at(c, "pipelineResolved")}
        /\ model' = "loaded"
        /\ ready' = TRUE
        /\ isLoading' = FALSE
        /\ loads' = loads - 1
        /\ obs' = Op("pipelineResolved")
        /\ LoadFrame
        /\ UNCHANGED <<detLoadVars, frameNo, status, renderFrameRef>>

\* tf.ready() or tf.loadLayersModel rejected: catch, throw, finally
PipelineLoadFails ==
    \E c \in chains :
        /\ c.pc = "pipelineLoading"
        /\ chains' = (chains \ {c}) \cup {at(c, "failed")}
        /\ isLoading' = FALSE
        /\ loads' = loads - 1
        /\ obs' = Op("pipelineThrew")
        /\ LoadFrame
        /\ UNCHANGED <<model, ready, detLoadVars, frameNo, status,
                       renderFrameRef>>

\* init() after both calls resolved: start(), setStatus("ready")
InitStarts ==
    \E c \in chains :
        /\ c.pc = "pipelineResolved"
        /\ chains' = (chains \ {c}) \cup {at(c, "started")}
        /\ status' = "ready"
        /\ renderFrameRef' = "scheduled"
        /\ obs' = Op("start")
        /\ LoadFrame
        /\ UNCHANGED <<pipeLoadVars, detLoadVars, frameNo>>

NextLoad ==
    \/ EffectRuns
    \/ DetectorLoadSucceeds
    \/ DetectorLoadFails
    \/ PipelineInitializeCall
    \/ PipelineLoadSucceeds
    \/ PipelineLoadFails
    \/ InitStarts

SpecLoad == InitLoad /\ [][NextLoad]_vars

(***************************************************************************)
(* SpecHands: what a tick of the frame loop does with the answer of        *)
(* extractFeatures and with the hands of the detector's latest results.    *)
(* Two loops are followed side by side, each step being a tick of one of   *)
(* them: that of CameraFeed.tsx, lines 106-127 (as that of part_006, lines *)
(* 100-118), and that of CameraFeed.tsx, lines 993-1014, which clears the  *)
(* window on a frame without hands.                                        *)
(***************************************************************************)
MaxHandFrames == 4

HandShapes == {"undefined", "complete"}

\* results?.leftHandLandmarks || results?.rightHandLandmarks
hasHands(res) ==
    res.leftHandLandmarks.defined \/ res.rightHandLandmarks.defined

\* a loop that looks at the vector only
hasHandsAlways(res) == TRUE

\* the hands test of the loop
loopHasHands(res) == hasHands(res)

\* what extractFeatures hands to the loop and what it leaves in lastResults:
\* a vector with the results it was built from, or null with the results of
\* an earlier frame left as they were
Extracted(answered, left, right) ==
    IF answered
    THEN [features |-> [c \in Channels |->
                           IF c = "pose" \/ left = "complete" THEN 500 ELSE 0],
          results |-> [poseLandmarks |-> Shape("short", POSE_COUNT),
                       faceLandmarks |-> NoLandmarks,
                       leftHandLandmarks |-> Shape(left, HAND_COUNT),
                       rightHandLandmarks |-> Shape(right, HAND_COUNT)]]
    ELSE [features |-> <<>>, results |-> results]

\* smooth, pushFrame and predict of a tick
Processed(features, probs) ==
    LET s == smooth(filters, features, PerformanceNow(now))
        pushed == pushFrame(frameBuffer, Features)
        r == predict(model, pushed, probs)
    IN  /\ filters' = s.filters
        /\ smoothed' = s.smoothed
        /\ frameBuffer' = pushed
        /\ tensor' = r.tensor
        /\ event' = r.result

HandsUnchanged ==
    UNCHANGED <<model, ready, isLoading, stabilityVars, cooldownVars, now,
                emitLog, status, facingMode, isSwitching, processingLocked,
                renderFrameRef, indexVars, detectorVars, asyncVars>>

\* a tick of the loop of lines 106-127
HandsFrame ==
    /\ frameNo <= MaxHandFrames
    /\ ~isPaused
    /\ frameNo' = frameNo + 1
    /\ obs' = Op("frame")
    /\ \E answered \in BOOLEAN, left \in HandShapes, right \in HandShapes,
          probs \in AppDistributions :
          LET x == Extracted(answered, left, right)
          IN  /\ featureVector' = x.features
              /\ results' = x.results
              /\ IF x.features # <<>> /\ loopHasHands(x.results)
                 THEN Processed(x.features, probs)
                 ELSE UNCHANGED <<filters, smoothed, frameBuffer, tensor,
                                  event>>
    /\ HandsUnchanged

\* a tick of the loop of lines 993-1014
ClearingFrame ==
    /\ frameNo <= MaxHandFrames
    /\ frameNo' = frameNo + 1
    /\ obs' = Op("frameClearing")
    /\ \E answered \in BOOLEAN, left \in HandShapes, right \in HandShapes,
          probs \in AppDistributions :
          LET x == Extracted(answered, left, right)
          IN  /\ featureVector' = x.features
              /\ results' = x.results
              /\ IF x.features # <<>> /\ ~isPaused /\ loopHasHands(x.results)
                 THEN Processed(x.features, probs)
                 ELSE /\ frameBuffer' = IF ~loopHasHands(x.results)
                                        THEN clearBuffer(frameBuffer)
                                        ELSE frameBuffer
                      /\ UNCHANGED <<filters, smoothed, tensor, event>>
    /\ HandsUnchanged

NextHands ==
    \/ HandsFrame
    \/ ClearingFrame
    \/ ClearCurrentWord
    \/ PauseTimeout

SpecHands == InitFilter /\ [][NextHands]_vars

(***************************************************************************)
(* SpecTensors: the tensors of predict() of actionLstmPipeline.ts.  The    *)
(* call runs up to its await of prediction.data() and goes on when the     *)
(* data arrived or the read failed.                                        *)
(***************************************************************************)
MaxTensors == 4

\* tf.tensor3d(...), and the tensor model.predict returns
create(mem, kind) ==
    [nextId |-> mem.nextId + 1,
     live |-> mem.live \cup {[id |-> mem.nextId, kind |-> kind]}]

\* t.dispose()
dispose(mem, id) == [mem EXCEPT !.live = {t \in @ : t.id # id}]

\* what leaving the try block does to the classifier's output when
\* prediction.data() rejected: prediction.dispose() of line 52 is skipped
leavePrediction(mem, id) == mem

\* predict() up to its await: the guard, tf.tensor3d, model.predict
TensorPredictCall ==
    /\ ~pendingPredict
    /\ tfMemory.nextId <= MaxTensors
    /\ \E answer \in {"prediction", "throws"} :
          IF predictGuard(model, frameBuffer)
          THEN /\ tensor' = NoTensor
               /\ event' = NoEvent
               /\ obs' = Op("predict")
               /\ UNCHANGED <<tfMemory, pendingPredict>>
          ELSE LET made == create(tfMemory, "input")
               IN  /\ tensor' = [i \in 1..SEQUENCE_LENGTH |-> frameBuffer[i]]
                   /\ IF answer = "throws"
                      THEN /\ tfMemory' = dispose(made, tfMemory.nextId)
                           /\ event' = Rejected
                           /\ obs' = [op |-> "predict", probs |-> Thrown]
                           /\ UNCHANGED pendingPredict
                      ELSE /\ tfMemory' = create(made, "output")
                           /\ pendingPredict' = TRUE
                           /\ obs' = Op("predictAwait")
                           /\ UNCHANGED event
    /\ UNCHANGED <<pipelineVars, stabilityVars, cooldownVars, now, frameNo,
                   emitLog, appVars, featureVars, detectorVars,
                   detectorLoading, detectorLoads, loads, chains>>

\* prediction.data() resolved: lines 52-66 and the finally block
TensorDataResolves ==
    /\ pendingPredict
    /\ \E probs \in Distributions :
          /\ event' = predict("loaded", tensor, probs).result
          /\ obs' = [op |-> "predict", probs |-> probs]
    /\ tfMemory' = dispose(dispose(tfMemory, tfMemory.nextId - 1),
                           tfMemory.nextId - 2)
    /\ pendingPredict' = FALSE
    /\ UNCHANGED <<pipelineVars, stabilityVars, cooldownVars, now, frameNo,
                   tensor, emitLog, appVars, featureVars, detectorVars,
                   detectorLoading, detectorLoads, loads, chains>>

\* prediction.data() rejected: the finally block only
TensorDataRejects ==
    /\ pendingPredict
    /\ event' = Rejected
    /\ obs' = [op |-> "predict", probs |-> Thrown]
    /\ tfMemory' = dispose(leavePrediction(tfMemory, tfMemory.nextId - 1),
                           tfMemory.nextId - 2)
    /\ pendingPredict' = FALSE
    /\ UNCHANGED <<pipelineVars, stabilityVars, cooldownVars, now, frameNo,
                   tensor, emitLog, appVars, featureVars, detectorVars,
                   detectorLoading, detectorLoads, loads, chains>>

NextTensors ==
    \/ InitializeCall
    \/ LoadSucceeds
    \/ LoadFails
    \/ PushFrame
    \/ ClearBuffer
    \/ TensorPredictCall
    \/ TensorDataResolves
    \/ TensorDataRejects

SpecTensors == Init /\ [][NextTensors]_vars

(***************************************************************************)
(* SpecWord: the word of Index.tsx under its three handlers.  A frame loop *)
(* calls the handleSignDetected it was started with, which reads the       *)
(* isPaused of the render that built it; a loop started by an earlier      *)
(* render may still have a tick under way.                                 *)
(***************************************************************************)
Labels == {ACTION_CLASSES[i] : i \in 1..Len(ACTION_CLASSES)} \cup {Null}

\* the callback of a render, held by the loop started with it
Callback(paused, newest) == [isPaused |-> paused, newest |-> newest]

\* Index renders after isPaused changed: handleSignDetected is built anew
\* (useCallback, [isPaused]) and CameraFeed starts a loop with it
WordRender ==
    /\ Callback(isPaused, TRUE) \notin chains
    /\ chains' = {Callback(c.isPaused, FALSE) : c \in chains}
                    \cup {Callback(isPaused, TRUE)}
    /\ UNCHANGED <<pipelineVars, stabilityVars, cooldownVars, now, frameNo,
                   obs, tensor, event, emitLog, appVars, featureVars,
                   detectorVars, detectorLoading, detectorLoads, loads,
                   pendingPredict, tfMemory>>

\* the tick that a loop of an earlier render had under way is over
WordLoopEnds ==
    /\ \E c \in chains :
          /\ ~c.newest
          /\ chains' = chains \ {c}
    /\ UNCHANGED <<pipelineVars, stabilityVars, cooldownVars, now, frameNo,
                   obs, tensor, event, emitLog, appVars, featureVars,
                   detectorVars, detectorLoading, detectorLoads, loads,
                   pendingPredict, tfMemory>>

\* a loop calls onSignDetected(letter): handleSignDetected, lines 45-56
SignDetected ==
    /\ \E c \in chains, letter \in Labels :
          LET runs == ~c.isPaused /\ letter # Null
              given == [action |-> letter, confidence |-> CONFIDENCE_THRESHOLD]
              word == IF runs THEN handleSignDetected(currentWord, letter)
                      ELSE currentWord
          IN  /\ Len(word) <= MaxWord
              /\ currentWord' = word
              /\ currentSign' = IF runs THEN letter ELSE currentSign
              /\ event' = IF letter = Null THEN NoEvent ELSE given
              /\ emitLog' = IF runs THEN Logged(emitLog, given, now)
                            ELSE emitLog
              /\ obs' = Op(IF c.isPaused THEN "onSignDetectedPaused"
                           ELSE "onSignDetected")
    /\ UNCHANGED <<pipelineVars, stabilityVars, cooldownVars, now, frameNo,
                   tensor, cameraVars, isPaused, pauseTimeoutRef, signHistory,
                   extraVars>>

NextWord ==
    \/ WordRender
    \/ WordLoopEnds
    \/ SignDetected
    \/ SubmitWord
    \/ ClearCurrentWord
    \/ PauseTimeout

SpecWord == InitApp /\ [][NextWord]_vars

(***************************************************************************)
(* Properties of the window and of the classifier adapter (Spec).          *)
(***************************************************************************)

\* C9: after any sequence of pushFrame and clearBuffer calls the window holds
\* at most SEQUENCE_LENGTH (30) vectors, and right after clearBuffer it
\* holds none.
WindowBounded ==
    /\ Len(frameBuffer) <= SEQUENCE_LENGTH
    /\ obs.op = "clearBuffer" => Len(frameBuffer) = 0

\* C9 witness: more than 30 frames were pushed since the last clear, so a
\* push has evicted, and the window is full.
WindowEvicted ==
    /\ obs.op = "pushFrame"
    /\ Len(frameBuffer) = SEQUENCE_LENGTH
    /\ frameBuffer[1] > 1
    /\ frameBuffer[SEQUENCE_LENGTH] - frameBuffer[1] = SEQUENCE_LENGTH - 1

\* C10: predict() resolves to null without calling the classifier whenever
\* the window holds fewer than 30 vectors or no model is loaded; a call of
\* the classifier gets exactly the 30 vectors of the window.
PredictOnlyOnFullWindow ==
    /\ (obs.op = "predict" /\ (model = Null \/ Len(frameBuffer) < SEQUENCE_LENGTH))
          => (tensor = NoTensor /\ event = NoEvent)
    /\ tensor # NoTensor
          => /\ obs.op = "predict"
             /\ model # Null
             /\ Len(tensor) = SEQUENCE_LENGTH
             /\ tensor = frameBuffer

\* C10 witness: predict() ran with a loaded model on a window of 29 vectors,
\* the classifier would have been confident, and nothing was returned.
PredictOnShortWindow ==
    /\ obs.op = "predict"
    /\ obs.probs = <<90, 5, 5>>
    /\ model = "loaded"
    /\ Len(frameBuffer) = SEQUENCE_LENGTH - 1
    /\ tensor = NoTensor
    /\ event = NoEvent

(***************************************************************************)
(* Properties of the anti-repeat cooldown (SpecCooldown).                  *)
(***************************************************************************)
LastLogged == emitLog[Len(emitLog)]

\* C2: two events for the same label with no event for another label and no
\* reset between them are at least COOLDOWN_MS (2000 ms) apart, so frames
\* that keep showing one label give at most one event in any shorter
\* interval.
CooldownSpacesRepeats ==
    \A i \in 1..(Len(emitLog) - 1) :
        emitLog[i].action = emitLog[i + 1].action
            => emitLog[i + 1].time - emitLog[i].time >= COOLDOWN_MS

\* C2 witness: a frame classified "hello" with confidence above the
\* threshold was suppressed because "hello" was delivered less than
\* COOLDOWN_MS before.
RepeatSuppressed ==
    /\ obs.op = "frame"
    /\ obs.probs = <<90, 5, 5>>
    /\ tensor # NoTensor
    /\ event = NoEvent
    /\ emitLog # <<>>
    /\ LastLogged.action = "hello"
    /\ now > LastLogged.time
    /\ now - LastLogged.time < COOLDOWN_MS

(***************************************************************************)
(* Properties of the stability gate (SpecStability).                       *)
(***************************************************************************)

\* a step of StabilityFrame in which predict() ran on a full window with a
\* loaded model
FrameStep ==
    /\ obs'.op = "frame"
    /\ now' = now
    /\ model # Null
    /\ Len(frameBuffer') = SEQUENCE_LENGTH

\* the label of the classifier's answer in the step, when it is confident
ConfidentLabel(probs) == ACTION_CLASSES[ArgMaxFromZero(probs)[1]]
IsConfident(probs) == ArgMaxFromZero(probs)[2] >= CONFIDENCE_THRESHOLD

\* the last n entries of the stability buffer all carry the label
TrailingRun(sbuf, label, n) ==
    /\ Len(sbuf) >= n
    /\ \A i \in (Len(sbuf) - n + 1)..Len(sbuf) : sbuf[i] = label

\* C1: an event is emitted only at an observation that completes K
\* (STABILITY_WINDOW) consecutive observations of its label since the last
\* reset or trigger: the K - 1 observations before it are in the buffer and
\* carry the label.
EmitsOnlyAfterKConsistent ==
    [][(FrameStep /\ event' # NoEvent)
          => TrailingRun(stabilityBuffer, event'.action, STABILITY_WINDOW - 1)]_vars

\* C3: a classified, confident observation of the last emitted label that
\* completes K consecutive observations of it and is made more than
\* RETRIGGER_MS (3000 ms) after that label's event emits the label again.
RepeatAfterCooldownEmits ==
    [][(/\ FrameStep
        /\ ~lockedOut(now, lastTriggerTime)
        /\ IsConfident(obs'.probs)
        /\ ConfidentLabel(obs'.probs) = lastTriggeredAction
        /\ now - lastTriggerTime > RETRIGGER_MS
        /\ TrailingRun(stabilityBuffer, lastTriggeredAction, STABILITY_WINDOW - 1))
          => event'.action = lastTriggeredAction]_vars

\* C3 witness: "hello" was delivered twice in a row, the second time more
\* than RETRIGGER_MS after the first, with no reset between.
RepeatedAfterCooldown ==
    /\ Len(emitLog) >= 2
    /\ event.action = "hello"
    /\ LastLogged.action = "hello"
    /\ emitLog[Len(emitLog) - 1].action = "hello"
    /\ LastLogged.time - emitLog[Len(emitLog) - 1].time > RETRIGGER_MS

\* C4, as claimed: time suppresses only a repeat of the last emitted label,
\* so a confident observation of another label is never dropped: it is
\* emitted or it is counted in the stability buffer, whatever time has
\* passed since the last event.
OtherLabelNeverSuppressedByTime ==
    [][(/\ FrameStep
        /\ IsConfident(obs'.probs)
        /\ ConfidentLabel(obs'.probs) # lastTriggeredAction)
          => \/ event'.action = ConfidentLabel(obs'.probs)
             \/ stabilityBuffer'
                   = pushStability(stabilityBuffer, ConfidentLabel(obs'.probs))]_vars

\* C4, amended: outside the 1500 ms lock-out that follows every event, a
\* confident observation of a label other than the last emitted one is
\* emitted or counted whatever time has passed, and the one that completes
\* K consecutive observations is emitted; inside the lock-out predict()
\* returns null and leaves the gate as it is.
OtherLabelEmitsAfterLockout ==
    [][/\ (/\ FrameStep
           /\ ~lockedOut(now, lastTriggerTime)
           /\ IsConfident(obs'.probs)
           /\ ConfidentLabel(obs'.probs) # lastTriggeredAction)
             => /\ \/ event'.action = ConfidentLabel(obs'.probs)
                   \/ stabilityBuffer'
                         = pushStability(stabilityBuffer, ConfidentLabel(obs'.probs))
                /\ TrailingRun(stabilityBuffer, ConfidentLabel(obs'.probs),
                               STABILITY_WINDOW - 1)
                      => event'.action = ConfidentLabel(obs'.probs)
       /\ (FrameStep /\ lockedOut(now, lastTriggerTime))
             => (event' = NoEvent /\ UNCHANGED stabilityVars)]_vars

\* C4 witness: "hello", "thanks", "hello" were delivered in this order with
\* no reset between, "thanks" less than RETRIGGER_MS after the first
\* "hello".
ThreeEventsABA ==
    /\ Len(emitLog) = 3
    /\ emitLog[1].action = "hello"
    /\ emitLog[2].action = "thanks"
    /\ emitLog[3].action = "hello"
    /\ emitLog[2].time - emitLog[1].time < RETRIGGER_MS
    /\ event.action = "hello"

\* what a frame classified below the threshold does to the gate in the
\* current state
GateAfterLowConfidence ==
    LET r == predictStability(model, frameBuffer, stabilityBuffer,
                              lastTriggeredAction, lastTriggerTime, now,
                              <<84, 10, 6>>)
    IN  <<r.stabilityBuffer, r.lastTriggeredAction, r.lastTriggerTime>>

\* C5: a frame tick without a classification result leaves the gate in the
\* state a frame classified below the threshold leaves it in (one "none"
\* observation more).
NoResultCountsAsLowConfidence ==
    [][obs'.op = "idleFrame" => stabilityVars' = GateAfterLowConfidence]_vars

\* C6: right after clearBuffer() the gate is in its initial state: empty
\* stability buffer, no last emitted label, no last emission time.
ClearBufferResetsGate ==
    obs.op = "clearBuffer"
        => /\ stabilityBuffer = <<>>
           /\ lastTriggeredAction = Null
           /\ lastTriggerTime = 0

(***************************************************************************)
(* Properties of the page (SpecApp).                                       *)
(***************************************************************************)

\* a filter in the state reset() leaves
IsReset(f) == ~f.xFilter.set /\ ~f.dxFilter.set /\ ~f.hasTime

\* C7: the step of the application's clear operation (word submitted or
\* current word cleared) leaves the window empty and every filter channel
\* in its reset state.  (The pipeline of this revision holds no gate
\* state.)
ClearOperationClearsAll ==
    [][(SubmitWord \/ ClearCurrentWord)
          => /\ frameBuffer' = <<>>
             /\ \A c \in Channels : IsReset(filters'[c])]_vars

\* coordinates offered to a channel to see how it answers
ProbeValues == {500, 900}

\* the channel returns its next sample as a first-ever sample is returned:
\* unchanged
BehavesAsNew(f, t) ==
    \A v \in ProbeValues : oneEuroFilter(f, v, FALSE, 0, t).out = v

\* C8: when toggleCamera completes, the window is empty and every filter
\* channel behaves as for a first-ever sample.
CameraSwitchLeavesNoState ==
    [][ToggleCameraEnd
          => /\ frameBuffer' = <<>>
             /\ \A c \in Channels :
                   BehavesAsNew(filters'[c], PerformanceNow(now'))]_vars

(***************************************************************************)
(* Order of the window (Spec).                                             *)
(***************************************************************************)

Min(a, b) == IF a < b THEN a ELSE b

\* C11: the window is a strict FIFO.  A push leaves min(n + 1, 30) vectors:
\* the vector pushed, last, behind the newest of those held before, in their
\* order (only the oldest can be gone); the frames held are therefore
\* consecutive and end with the last frame pushed.  The classifier's input
\* row i is the i-th oldest vector of the window.
WindowIsFifo ==
    [][/\ obs'.op = "pushFrame"
          => LET gone == Len(frameBuffer) + 1 - Len(frameBuffer')
             IN  /\ Len(frameBuffer') = Min(Len(frameBuffer) + 1, SEQUENCE_LENGTH)
                 /\ frameBuffer'[Len(frameBuffer')] = frameNo
                 /\ \A i \in 1..(Len(frameBuffer') - 1) :
                       frameBuffer'[i] = frameBuffer[i + gone]
                 /\ \A i \in 1..(Len(frameBuffer') - 1) :
                       frameBuffer'[i + 1] = frameBuffer'[i] + 1
       /\ (obs'.op = "predict" /\ tensor' # NoTensor)
          => /\ frameBuffer' = frameBuffer
             /\ \A i \in 1..SEQUENCE_LENGTH : tensor'[i] = frameBuffer[i]]_vars

\* C11 witness: after 32 pushes with no clear between, the classifier was
\* given frames 3 to 32, oldest first.
ClassifiedAfterEviction ==
    /\ obs.op = "predict"
    /\ tensor # NoTensor
    /\ tensor[1] = 3
    /\ tensor[SEQUENCE_LENGTH] = 32
    /\ frameBuffer = tensor

(***************************************************************************)
(* Properties of the feature builder (SpecFeatures).                       *)
(***************************************************************************)

\* where each group lies in the vector: first offset, points, slots a point
Layout ==
    [poseLandmarks |-> [at |-> 0, count |-> 33, width |-> 4],
     faceLandmarks |-> [at |-> 132, count |-> 468, width |-> 3],
     leftHandLandmarks |-> [at |-> 1536, count |-> 21, width |-> 3],
     rightHandLandmarks |-> [at |-> 1599, count |-> 21, width |-> 3]]

\* the value slot d (1 for x, ... 4 for visibility) of point i of the group
\* is to hold: the coordinate as stored, 0 for a visibility the point lacks
\* and for an absent point or group
ExpectedSlot(landmarks, i, d) ==
    IF ~landmarks.defined \/ Len(landmarks.points) = 0 \/ i > Len(landmarks.points)
    THEN 0
    ELSE LET lm == landmarks.points[i]
         IN  IF ~lm.present THEN 0
             ELSE IF d = 1 THEN toFloat32(lm.x)
             ELSE IF d = 2 THEN toFloat32(lm.y)
             ELSE IF d = 3 THEN toFloat32(lm.z)
             ELSE IF lm.visibility = Undefined THEN 0
             ELSE toFloat32(lm.visibility)

\* C12: a built vector has exactly 1662 entries, with pose at [0,132), face
\* at [132,1536), left hand at [1536,1599) and right hand at [1599,1662);
\* the slots of an absent group or point are 0 and every present point is
\* at its reserved offset, whatever is absent before it.
FeatureLayout ==
    featureVector # <<>>
        => /\ Len(featureVector) = 1662
           /\ \A g \in DOMAIN Layout :
                 \A i \in 1..Layout[g].count :
                    \A d \in 1..Layout[g].width :
                       featureVector[Layout[g].at + (i - 1) * Layout[g].width + d]
                          = ExpectedSlot(results[g], i, d)

\* C12 witness: a vector built from a result without pose, with an empty face
\* array and with every second point of the left hand missing holds the
\* first and the last point of the right hand at 1599 and 1659.
RightHandAfterAbsentGroups ==
    /\ featureVector # <<>>
    /\ ~results.poseLandmarks.defined
    /\ results.faceLandmarks = [defined |-> TRUE, points |-> <<>>]
    /\ ~landmarkAt(results.leftHandLandmarks, 0).present
    /\ landmarkAt(results.leftHandLandmarks, 1).present
    /\ featureVector[1600] = 11
    /\ featureVector[1662] = 213
    /\ featureVector[1537] = 0
    /\ featureVector[1540] = 21

\* C13: no entry of a built vector is NaN: a NaN or undefined coordinate of
\* the detection result is written as 0.
NoNaNInFeatures ==
    \A k \in 1..Len(featureVector) : featureVector[k] # NaN

(***************************************************************************)
(* Properties of the filter bank (SpecFilter, SpecFilterFirst).            *)
(***************************************************************************)

\* the memory of a filter is what reset() leaves
MemoryReset(f) == ~f.xFilter.set /\ ~f.dxFilter.set /\ ~f.hasTime

\* C14: a channel whose input is exactly 0 outputs 0 and has its memory
\* reset (last value, last derivative, last timestamp), whatever it filtered
\* before, and the next non-zero input on that channel is returned unchanged.
ZeroInputResetsChannel ==
    [][obs'.op \in FilterOps
          => \A c \in Channels :
                /\ featureVector'[c] = 0
                      => smoothed'[c] = 0 /\ MemoryReset(filters'[c])
                /\ (featureVector'[c] # 0 /\ obs.op \in FilterOps
                       /\ featureVector[c] = 0)
                      => smoothed'[c] = featureVector'[c]]_vars

\* C15: the filter call that follows reset() of the bank returns its input
\* on every channel, whatever was filtered before the reset and whatever the
\* timestamp is.
FirstAfterResetReturnsInput ==
    [][(obs.op = "reset" /\ obs'.op \in FilterOps)
          => \A c \in Channels :
                featureVector'[c] # 0 => smoothed'[c] = featureVector'[c]]_vars

\* C15 witness: the third call of smooth, made right after a reset of the
\* bank that had filtered two frames, took its time from the clock as a new
\* filter does and returned 900 on the pose channel.
FilteredAfterReset ==
    /\ obs.op = "filter"
    /\ frameNo = 4
    /\ filters["pose"].freq = FILTER_FREQ
    /\ filters["pose"].lastTime = PerformanceNow(now)
    /\ featureVector["pose"] = 900
    /\ smoothed["pose"] = 900

\* C16: with timestamps that increase, a filter call with the input v moves
\* the output no further from v than the output before was, so that a
\* constant input from a reset filter is returned by every call and from any
\* other state is approached.
ConstantInputConverges ==
    [][obs'.op = "filterAt"
          => \A c \in Channels :
                LET v == featureVector'[c]
                IN  v # 0
                      => /\ ~filters[c].xFilter.set => smoothed'[c] = v
                         /\ filters[c].xFilter.set
                               => Abs(smoothed'[c] - v)
                                     <= Abs(filters[c].xFilter.y - v)]_vars
\* C16 witness: three calls with increasing timestamps, the pose channel fed
\* 900, 500, 500 and the hand channel 500, 500, 500: the pose output has
\* gone from 813 to 742 and the hand output is 500.
ApproachedConstantInput ==
    /\ obs.op = "filterAt"
    /\ frameNo = 4
    /\ featureVector["pose"] = 500
    /\ smoothed["pose"] = 742
    /\ filters["pose"].dxFilter.y = 0 - 3165
    /\ featureVector["leftHand"] = 500
    /\ smoothed["leftHand"] = 500
    /\ filters["leftHand"].dxFilter.set
    /\ filters["leftHand"].lastTime = PerformanceNow(now)

(***************************************************************************)
(* Properties of the detector (SpecDetector).                              *)
(***************************************************************************)

\* the sends of video frames that the detector has not answered
VideoSends == {i \in 1..Len(sends) : sends[i] > 0}

\* C17: at no time are two sends of video frames unanswered together, also
\* after a timeout, after a failed send and when the result of a frame that
\* timed out arrives late.
OneSendAtATime == Cardinality(VideoSends) <= 1

\* the state of the filter bank, the window and the gates
PipelineState ==
    <<filters, frameBuffer, stabilityBuffer, lastTriggeredAction,
      lastTriggerTime, lastDetectedAction, lastDetectionTime>>

\* C18: a call of extractFeatures that times out, finds the detector busy or
\* not ready, or whose send fails resolves to null and is never rejected;
\* the frame leaves the filter bank, the window and the gates as they were;
\* a timeout and a failed send leave the busy flag cleared, and a set flag
\* always has a pending timer that clears it.
FailedExtractionSkipsFrame ==
    [][/\ settled' # settled
          => /\ settled'.outcome \in {"null", "features"}
             /\ settled'.cause \in {"timeout", "sendFailed", "busy",
                                    "notReady", "noVideo"}
                   => /\ settled'.outcome = "null"
                      /\ PipelineState' = PipelineState
             /\ settled'.cause \in {"timeout", "sendFailed"} => ~isProcessing'
       /\ isProcessing' => timers' # {}]_vars

\* C18 witness: the first call was given the features of its frame, which
\* were filtered and pushed; the second call has timed out with its send still
\* unanswered: it resolved to null, the window holds the first frame only and
\* the busy flag is cleared.
TimedOutAfterGoodFrame ==
    /\ settled = [call |-> 2, outcome |-> "null", cause |-> "timeout",
                  from |-> 0]
    /\ frameBuffer = <<1>>
    /\ filters["pose"].xFilter.set
    /\ sends = <<2>>
    /\ ~isProcessing

(***************************************************************************)
(* Properties of a classifier call that throws (Spec, SpecApp).            *)
(***************************************************************************)

\* the branch of renderLoop (CameraFeed.tsx, lines 339-355) that a result of
\* predict() leads to
renderLoopBranch(result) ==
    IF result = Rejected THEN "catch"
    ELSE IF result = NoEvent THEN "noGesture"
    ELSE "onSignDetected"

\* C19: predict() rejects exactly when the classifier was called and threw;
\* it does not resolve to null then, the loop that awaits it ends up in its
\* catch block and not where a null result leads, and the window is as it
\* was before the call.
ClassifierFailureIsReported ==
    [][obs'.op = "predict"
          => LET threw == obs'.probs = Thrown /\ ~predictGuard(model, frameBuffer)
             IN  /\ (event' = Rejected) <=> threw
                 /\ threw => /\ event' # NoEvent
                             /\ renderLoopBranch(event') = "catch"
                             /\ renderLoopBranch(event') # renderLoopBranch(NoEvent)
                             /\ tensor' = frameBuffer
                 /\ frameBuffer' = frameBuffer]_vars

\* C19 witness: the classifier threw on a full window from which frames had
\* been evicted; predict() rejected and the window is the one it was given.
ClassifierThrewOnFullWindow ==
    /\ obs.op = "predict"
    /\ obs.probs = Thrown
    /\ event = Rejected
    /\ Len(frameBuffer) = SEQUENCE_LENGTH
    /\ frameBuffer[1] = 2
    /\ tensor = frameBuffer

\* C20: a tick of the frame loop whose classifier call failed still requests
\* the next tick.
LoopSurvivesClassifierFailure ==
    [][(frameNo' # frameNo /\ event' = Rejected)
          => renderFrameRef' = "scheduled"]_vars

(***************************************************************************)
(* Properties of clearBuffer() during predict() (SpecCooldownAwait).       *)
(***************************************************************************)

\* C21: a predict() that resumes after its await delivers an event, or
\* writes the last label or time, only if the window is still the one the
\* classifier was given: after clearBuffer() ran during the await it resolves
\* to null and leaves the fields as clearBuffer() set them.
NoEventFromClearedWindow ==
    [][(pendingPredict /\ ~pendingPredict')
          => ((\/ event' # NoEvent
               \/ lastDetectedAction' # lastDetectedAction
               \/ lastDetectionTime' # lastDetectionTime)
                 => frameBuffer = tensor)]_vars

(***************************************************************************)
(* Properties of the frame loops (SpecLoops).                              *)
(***************************************************************************)

\* C22: at any time at most one chain of loop ticks is active: a loop that
\* was waiting for the detector or the classifier when cleanup() ran
\* requests no further frame.
OneLoopChain ==
    /\ Cardinality({c \in chains : c.requested}) <= 1
    /\ \A c \in chains : c.requested => c.id = frameNo - 1

\* s is the beginning of t
IsPrefix(s, t) == Len(s) <= Len(t) /\ s = SubSeq(t, 1, Len(s))

\* C24: the steps of a frame run in the order extractFeatures, smooth,
\* pushFrame, predict, delivery of the event, and a loop starts the
\* extraction of its next frame only after it has requested the next tick,
\* which it does not do while the predict() of its frame has not settled.
FrameStepsInOrder ==
    [][/\ \A c \in chains' :
             /\ IsPrefix(c.steps, FrameOrder)
             /\ c.requested => c.steps \notin {SubSeq(FrameOrder, 1, 2),
                                               SubSeq(FrameOrder, 1, 3),
                                               SubSeq(FrameOrder, 1, 4)}
       /\ \A c \in chains, d \in chains' :
             (/\ d.id = c.id
              /\ d # c
              /\ d.steps = <<"extractFeatures">>
              /\ ~d.requested)
                => c.requested]_vars

\* C24 witness: a loop has delivered the event of its first frame, extracted,
\* smoothed and pushed its second frame and awaits predict() for it.
SecondFramePredicting ==
    \E c \in chains :
        /\ c.steps = SubSeq(FrameOrder, 1, 4)
        /\ ~c.requested
        /\ frameBuffer = <<c.id, c.id>>
        /\ event # NoEvent
        /\ Cardinality(chains) = 1

\* C23: the vector that an extractFeatures call returns is built from the
\* detector result for the image this call sent, never from the late result
\* of an earlier send of a video frame.
FeaturesFromOwnSend ==
    (settled.outcome = "features" /\ settled.from # CanvasSend)
        => settled.from = settled.call

(***************************************************************************)
(* Properties of the finger check over the cooldown pipeline (SpecSanity). *)
(***************************************************************************)

\* C25: a label that the finger check rejects emits no event and leaves the
\* last emitted label and the last emission time as they were, so that it
\* starts no cooldown.
RejectedLabelStartsNoCooldown ==
    [][obs'.op = "blocked"
          => /\ lastDetectedAction' = lastDetectedAction
             /\ lastDetectionTime' = lastDetectionTime
             /\ currentWord' = currentWord]_vars

(***************************************************************************)
(* Properties of the gate after an emission (SpecStability).               *)
(***************************************************************************)

\* C26: an emitted event is recorded with its label and the current time as
\* the last emission and empties the consistency buffer, and the event that
\* follows an emission closes a run of STABILITY_WINDOW observations made
\* after that emission.
EmissionRestartsRun ==
    [][(event' # NoEvent /\ obs'.op = "frame" /\ now' = now)
          => /\ lastTriggeredAction' = event'.action
             /\ lastTriggerTime' = now
             /\ stabilityBuffer' = <<>>
             /\ lastTriggeredAction # Null
                   => Len(stabilityBuffer) >= STABILITY_WINDOW - 1]_vars

(***************************************************************************)
(* Termination of extractFeatures (SpecDetectorFair).                      *)
(***************************************************************************)

\* C27: every extractFeatures call settles: a call that waits for the
\* detector has its timer pending, and it stops waiting in the end, whatever
\* the detector does and also when rebind() runs while it waits.
EveryCallSettles ==
    /\ [](awaiting \subseteq timers)
    /\ \A c \in 1..MaxCalls : (c \in awaiting) ~> (c \notin awaiting)

\* C27 witness: the timer has just settled a call whose send the detector
\* never answered and after which rebind() sent its canvas.
TimedOutAcrossRebind ==
    /\ obs.op = "timeout"
    /\ settled.cause = "timeout"
    /\ sends = <<settled.call, CanvasSend>>

(***************************************************************************)
(* Properties of a newly mounted CameraFeed (SpecMount).                   *)
(***************************************************************************)

\* C28: recognition in a newly mounted CameraFeed starts with an empty
\* window and an initial gate: no frame and no emission of an earlier
\* session is left.
NewSessionStartsEmpty ==
    obs.op = "mount"
        => /\ frameBuffer = <<>>
           /\ lastDetectedAction = ""
           /\ lastDetectionTime = 0

(***************************************************************************)
(* Properties of initialize() (SpecLoad).                                  *)
(***************************************************************************)

\* C29: the pipeline and the detector each have at most one load in
\* progress, isLoading telling whether there is one, and after a failed load
\* isLoading and ready are both false.
OneLoadAtATime ==
    /\ loads = (IF isLoading THEN 1 ELSE 0)
    /\ detectorLoads = (IF detectorLoading THEN 1 ELSE 0)
    /\ obs.op = "pipelineThrew" => ~isLoading /\ ~ready
    /\ obs.op = "detectorThrew" => ~detectorLoading /\ ~detectorReady

\* C29 witness: the detector's load has failed before, a later initialize()
\* has started another, and a call made while that one runs has returned
\* without starting a second.
ReturnedWhileLoading ==
    /\ obs.op = "detectorResolved"
    /\ detectorLoads = 1
    /\ \E c \in chains : c.pc = "failed"

\* C30: when a call of initialize() resolves, ready is true.
ResolvedMeansReady ==
    /\ obs.op = "detectorResolved" => detectorReady
    /\ obs.op = "pipelineResolved" => ready

(***************************************************************************)
(* Properties of the reduction of the classifier's answer (Spec).          *)
(***************************************************************************)

\* i is the lowest index at which probs has its maximum
IsFirstMaximum(probs, i) ==
    /\ \A j \in 1..Len(probs) : probs[j] <= probs[i]
    /\ \A j \in 1..(i - 1) : probs[j] < probs[i]

\* C31: a result of predict() carries the class at the lowest index where
\* the classifier's distribution has its maximum, and that maximum as its
\* confidence; the loop that starts from 0 instead of probs[0] gives the
\* same for every answer that reaches the threshold.
ResultIsArgMax ==
    /\ (obs.op = "predict" /\ event \notin {NoEvent, Rejected})
          => \E i \in 1..Len(obs.probs) :
                /\ IsFirstMaximum(obs.probs, i)
                /\ event.action = ACTION_CLASSES[i]
                /\ event.confidence = obs.probs[i]
    /\ \A p \in Distributions :
          ArgMaxFromZero(p)[2] >= CONFIDENCE_THRESHOLD
             => ArgMaxFromZero(p) = ArgMax(p)

\* C31 witness: predict() has returned a result for an answer with two equal
\* maxima.
ResultFromTiedAnswer ==
    /\ obs.op = "predict"
    /\ event \notin {NoEvent, Rejected}
    /\ obs.probs = <<5, 90, 90>>

(***************************************************************************)
(* Properties of the capture orientation (SpecFeatures).                   *)
(***************************************************************************)

\* C32: the vector depends on the capture orientation passed by the caller:
\* a detection with a hand gives other hand x entries for the rear camera
\* than for the front camera.
MirrorContextChangesFeatures ==
    (/\ featureVector # <<>>
     /\ \/ landmarkAt(results.leftHandLandmarks, 1).present
        \/ landmarkAt(results.rightHandLandmarks, 1).present)
        => \E k \in 1537..1662 :
              extractFeaturesFor(results, facingMode # "environment")[k]
                 # featureVector[k]

(***************************************************************************)
(* Properties of the frequency estimate (SpecFilterTime, SpecFilter).      *)
(***************************************************************************)

\* C33: in a call of filter with a timestamp and with a timestamp before it,
\* an elapsed time of zero or less leaves the frequency estimate as it was
\* and a positive one sets it to 1 / elapsed seconds (cut to whole Hz); the
\* estimate is positive in every state.
FrequencyFollowsElapsedTime ==
    /\ [](\A c \in Channels : filters[c].freq > 0)
    /\ [][(obs'.op = "filterAt" /\ frameNo' # frameNo
              /\ filters["pose"].hasTime)
          => LET dt == filters'["pose"].lastTime - filters["pose"].lastTime
                 freq1 == filters'["pose"].freq
             IN  IF dt <= 0 THEN freq1 = filters["pose"].freq
                 ELSE freq1 * dt <= 1000 /\ (freq1 + 1) * dt > 1000]_vars

\* C33 witness: the estimate was set to 50 Hz by two timestamps 20 ms apart
\* and has been kept by a call whose timestamp is the earliest of all.
EstimateKeptOnEarlierTimestamp ==
    /\ obs.op = "filterAt"
    /\ filters["pose"].freq = 50
    /\ filters["pose"].lastTime = 20

\* C34: with smooth() called without a timestamp, the frequency estimate of
\* every channel keeps its constructor value, whatever the time between the
\* frames.
FrequencyStaysAtConstructorValue ==
    \A c \in Channels : filters[c].freq = FILTER_FREQ

\* C34 witness: two frames 50 ms apart have been smoothed, the second one
\* counted as 1000 / 30 ms after the first.
CountedAsThirtyHertz ==
    /\ obs.op = "filter"
    /\ now = StartTime + 90
    /\ filters["pose"].lastTime = 73
    /\ filters["pose"].freq = FILTER_FREQ

(***************************************************************************)
(* Properties of the hands test of the frame loop (SpecHands).             *)
(***************************************************************************)

\* C35: a tick smooths and pushes its frame only when extractFeatures gave a
\* vector and the latest results show a hand; any other tick leaves the
\* filters and the window as they were, the loop that clears on no hands
\* emptying the window instead.
OnlyFramesWithHandsArePushed ==
    [][(obs'.op \in {"frame", "frameClearing"} /\ frameNo' # frameNo)
          => LET given == featureVector' # <<>> /\ hasHands(results')
             IN  IF given /\ ~isPaused
                 THEN /\ frameBuffer' = pushFrame(frameBuffer, Features)
                      /\ filters' # filters
                 ELSE /\ filters' = filters
                      /\ frameBuffer' =
                            IF obs'.op = "frameClearing" /\ ~hasHands(results')
                            THEN <<>>
                            ELSE frameBuffer]_vars

\* C35 witness: two frames with a hand were pushed and the tick after them,
\* for which extractFeatures answered without a hand, has left the window
\* and the filters alone.
FrameWithoutHandsSkipped ==
    /\ obs.op = "frame"
    /\ featureVector # <<>>
    /\ ~hasHands(results)
    /\ Len(frameBuffer) = 2
    /\ filters["pose"].xFilter.set
    /\ frameNo = 4

(***************************************************************************)
(* Properties of the tensors of predict() (SpecTensors).                   *)
(***************************************************************************)

\* C36: once predict() has settled, with a result, with null or by failing,
\* every tensor it created is disposed: tf holds no tensor while no call
\* is under way.
SettledPredictLeavesNoTensor ==
    ~pendingPredict => tfMemory.live = {}

\* the input tensor alone: the finally block disposes it however the call ends
SettledPredictLeavesNoInput ==
    ~pendingPredict => \A t \in tfMemory.live : t.kind # "input"

\* a call that settled with a result after both its tensors were created
PredictSettledWithResult ==
    /\ obs.op = "predict"
    /\ event \notin {NoEvent, Rejected}
    /\ tfMemory.nextId = 3
    /\ tfMemory.live = {}

(***************************************************************************)
(* Properties of the word of Index.tsx (SpecWord).                         *)
(***************************************************************************)

AppendedWhilePagePaused ==
    /\ isPaused
    /\ obs.op = "onSignDetected"
    /\ currentWord # <<>>

(***************************************************************************)
(* SpecPause: the pause of Index.tsx.  handleSubmitWord and                *)
(* handleClearCurrentWord pause recognition and set a timer of 400 ms,     *)
(* after clearing the one pauseTimeoutRef holds; the timer's callback ends *)
(* the pause; the unmount effect clears the timer.  timers holds the       *)
(* timers of the window that are pending, pauseTimeoutRef the timer whose  *)
(* handle it holds, or NoTimer.                                            *)
(***************************************************************************)
PAUSE_MS == 400
PauseTickMs == 150
MaxPauseClock == 600

\* pauseTimeoutRef.current is null
NoTimer == [set |-> 0, due |-> 0]

\* window.setTimeout(..., 400) at time t
NewTimer(t) == [set |-> t, due |-> t + PAUSE_MS]

\* window.clearTimeout(ref)
clearTimeout(ts, ref) == ts \ {ref}

\* a handler that sets its timer and leaves the earlier one pending
pauseTimerKept(ts, ref, t) == ts \cup {NewTimer(t)}

\* if (pauseTimeoutRef.current) window.clearTimeout(pauseTimeoutRef.current);
\* pauseTimeoutRef.current = window.setTimeout(..., 400)
pauseTimer(ts, ref, t) ==
    (IF ref # NoTimer THEN clearTimeout(ts, ref) ELSE ts) \cup {NewTimer(t)}

Mounted == status # "unmounted"

PauseFrame ==
    UNCHANGED <<model, ready, isLoading, stabilityVars, cooldownVars, frameNo,
                tensor, event, emitLog, filters, facingMode, isSwitching,
                processingLocked, renderFrameRef, featureVars, isProcessing,
                resolveDetection, lastResults, sends, awaiting, settled,
                detectorReady, asyncVars>>

\* onSignDetected("hello") while recognition runs
PauseSignDetected ==
    /\ Mounted
    /\ ~isPaused
    /\ currentWord' = handleSignDetected(currentWord, "hello")
    /\ currentSign' = "hello"
    /\ obs' = Op("onSignDetected")
    /\ PauseFrame
    /\ UNCHANGED <<frameBuffer, now, status, isPaused, pauseTimeoutRef,
                   signHistory, timers>>

\* handleSubmitWord with a word that is not blank
PauseSubmitWord ==
    /\ Mounted
    /\ now - StartTime < MaxPauseClock
    /\ currentWord # <<>>
    /\ signHistory' = Append(signHistory, currentWord)
    /\ currentWord' = <<>>
    /\ currentSign' = Null
    /\ frameBuffer' = clearBuffer(frameBuffer)
    /\ isPaused' = TRUE
    /\ timers' = pauseTimer(timers, pauseTimeoutRef, now)
    /\ pauseTimeoutRef' = NewTimer(now)
    /\ obs' = Op("submitWord")
    /\ PauseFrame
    /\ UNCHANGED <<now, status>>

\* handleClearCurrentWord
PauseClearWord ==
    /\ Mounted
    /\ now - StartTime < MaxPauseClock
    /\ currentWord' = <<>>
    /\ currentSign' = Null
    /\ frameBuffer' = clearBuffer(frameBuffer)
    /\ isPaused' = TRUE
    /\ timers' = pauseTimer(timers, pauseTimeoutRef, now)
    /\ pauseTimeoutRef' = NewTimer(now)
    /\ obs' = Op("clearCurrentWord")
    /\ PauseFrame
    /\ UNCHANGED <<now, status, signHistory>>

\* a pending timer is due: setIsPaused(false); pauseTimeoutRef.current = null
PauseTimerFires ==
    /\ \E t \in timers :
          /\ t.due <= now
          /\ timers' = timers \ {t}
    /\ isPaused' = FALSE
    /\ pauseTimeoutRef' = NoTimer
    /\ obs' = Op("pauseTimeout")
    /\ PauseFrame
    /\ UNCHANGED <<frameBuffer, now, status, currentWord, currentSign,
                   signHistory>>

\* time passes, up to the moment the next timer is due
PauseTick ==
    /\ timers # {}
    /\ \A t \in timers : t.due > now
    /\ \E t \in timers :
          /\ \A u \in timers : t.due <= u.due
          /\ now' = Min(now + PauseTickMs, t.due)
    /\ PauseFrame
    /\ UNCHANGED <<frameBuffer, obs, status, isPaused, pauseTimeoutRef,
                   currentWord, currentSign, signHistory, timers>>

\* Index unmounts: the cleanup of the effect of lines 36-43
PauseUnmount ==
    /\ Mounted
    /\ status' = "unmounted"
    /\ timers' = IF pauseTimeoutRef # NoTimer
                 THEN clearTimeout(timers, pauseTimeoutRef)
                 ELSE timers
    /\ pauseTimeoutRef' = NoTimer
    /\ obs' = Op("unmount")
    /\ PauseFrame
    /\ UNCHANGED <<frameBuffer, now, isPaused, currentWord, currentSign,
                   signHistory>>

NextPause ==
    \/ PauseSignDetected
    \/ PauseSubmitWord
    \/ PauseClearWord
    \/ PauseTimerFires
    \/ PauseTick
    \/ PauseUnmount

\* Index after its first render
InitPause ==
    /\ model = Null
    /\ ready = FALSE
    /\ isLoading = FALSE
    /\ frameBuffer = <<>>
    /\ stabilityBuffer = <<>>
    /\ lastTriggeredAction = Null
    /\ lastTriggerTime = 0
    /\ lastDetectedAction = ""
    /\ lastDetectionTime = 0
    /\ now = StartTime
    /\ frameNo = 1
    /\ obs = Op("new")
    /\ tensor = NoTensor
    /\ event = NoEvent
    /\ emitLog = <<>>
    /\ filters = [c \in Channels |-> NewFilter]
    /\ status = "loading"
    /\ facingMode = "user"
    /\ isSwitching = FALSE
    /\ processingLocked = FALSE
    /\ renderFrameRef = Null
    /\ isPaused = FALSE
    /\ pauseTimeoutRef = NoTimer
    /\ currentWord = <<>>
    /\ currentSign = Null
    /\ signHistory = <<>>
    /\ DetectorInitial

SpecPause == InitPause /\ [][NextPause]_vars

\* the window runs a timer that is due, and time does not stand still
SpecPauseFair ==
    SpecPause /\ WF_vars(PauseTimerFires) /\ WF_vars(PauseTick)

(***************************************************************************)
(* Properties of the pause of Index.tsx (SpecPauseFair).                   *)
(***************************************************************************)

\* C38: at most one pause timer is pending; a submit or a clear sets the
\* timer to 400 ms after it; the pause ends exactly when the timer of the
\* last of them is due; and while the page is mounted every pause ends.
PauseEndsAfterLastOperation ==
    /\ [](Cardinality(timers) <= 1)
    /\ [][(isPaused' /\ (~isPaused \/ pauseTimeoutRef' # pauseTimeoutRef)
              /\ Mounted')
            => /\ pauseTimeoutRef' = [set |-> now, due |-> now + PAUSE_MS]
               /\ timers' = {pauseTimeoutRef'}]_vars
    /\ [][(isPaused /\ ~isPaused')
            => /\ now = pauseTimeoutRef.due
               /\ timers' = {}]_vars
    /\ ((isPaused /\ Mounted) ~> (~isPaused \/ ~Mounted))

\* C38 witness: a word was submitted, the pause was renewed by a clear 150 ms
\* later, and the pause has ended 400 ms after the clear.
PauseEndedAfterRenewal ==
    /\ obs.op = "pauseTimeout"
    /\ ~isPaused
    /\ signHistory # <<>>
    /\ now = StartTime + PauseTickMs + PAUSE_MS
    /\ timers = {}

====
